---- MODULE Spec2Model ----
(***************************************************************************)
(* Remote-link resolution and classification pipeline of the weekly status *)
(* report server: extractTitleFromUrl, fetchRemoteLinksForIssues, the      *)
(* enrichment step of GET /api/fetch-all-data and                          *)
(* ConfluenceClient.getPageTitle.                                          *)
(*                                                                         *)
(* JavaScript strings are TLA+ strings.  The alphabet is printable ASCII   *)
(* without the backtick, and the percent escapes of the inputs either      *)
(* denote a character of the alphabet or are malformed (an incomplete      *)
(* escape, a non-hexadecimal digit, a lone byte above 0x7F).  An absent,   *)
(* undefined or null string field that the code only ever reads through    *)
(* `x || ''` is the empty string.                                          *)
(***************************************************************************)
EXTENDS Integers, Sequences, FiniteSets, TLC

-----------------------------------------------------------------------------
\* String primitives

CharAt(s, i) == SubSeq(s, i, i)

MinOf(S) == CHOOSE m \in S : \A n \in S : m <= n

\* first position >= i of the one-character string c in tab, 0 when absent
IndexIn(c, tab, i) ==
  LET at == {j \in i..Len(tab) : CharAt(tab, j) = c}
  IN IF at = {} THEN 0 ELSE MinOf(at)

UpperChars == "ABCDEFGHIJKLMNOPQRSTUVWXYZ"
LowerChars == "abcdefghijklmnopqrstuvwxyz"
DigitChars == "0123456789"
HexChars == "0123456789ABCDEF"
HexCharsLower == "0123456789abcdef"
\* code points 0x20..0x5F and 0x61..0x7E, in order
AsciiLow == " !\"#$%&'()*+,-./0123456789:;<=>?@ABCDEFGHIJKLMNOPQRSTUVWXYZ[\\]^_"
AsciiHigh == "abcdefghijklmnopqrstuvwxyz{|}~"

RECURSIVE Join(_, _, _)
\* pieces[lo] \o ... \o pieces[hi]
Join(pieces, lo, hi) ==
  IF lo > hi THEN ""
  ELSE IF lo = hi THEN pieces[lo]
  ELSE LET mid == (lo + hi) \div 2
       IN Join(pieces, lo, mid) \o Join(pieces, mid + 1, hi)

LowerChar(c) ==
  LET k == IndexIn(c, UpperChars, 1)
  IN IF k = 0 THEN c ELSE CharAt(LowerChars, k)

toLowerCase(s) == Join([j \in 1..Len(s) |-> LowerChar(CharAt(s, j))], 1, Len(s))

\* String.prototype.includes
includes(s, sub) ==
  \E j \in 1..(Len(s) - Len(sub) + 1) : SubSeq(s, j, j + Len(sub) - 1) = sub

\* s.startsWith(sub, i - 1)
StartsAt(s, i, sub) ==
  /\ i + Len(sub) - 1 <= Len(s)
  /\ SubSeq(s, i, i + Len(sub) - 1) = sub

\* Index just past the longest run, starting at position i of s, of
\* characters that belong (member = TRUE) or do not belong (member = FALSE)
\* to chars: the greedy match of [chars]* or [^chars]*.
RunEnd(s, i, chars, member) ==
  MinOf({j \in i..Len(s) : (IndexIn(CharAt(s, j), chars, 1) > 0) # member}
        \cup {IF i > Len(s) THEN i ELSE Len(s) + 1})

\* s.replace(/c/g, d) for a one-character c
replaceChar(s, c, d) ==
  Join([j \in 1..Len(s) |-> IF CharAt(s, j) = c THEN d ELSE CharAt(s, j)], 1, Len(s))

\* String.prototype.trim (the whitespace of the alphabet is the space)
trim(s) ==
  LET solid == {j \in 1..Len(s) : CharAt(s, j) # " "}
  IN IF solid = {} THEN ""
     ELSE SubSeq(s, MinOf(solid), CHOOSE m \in solid : \A n \in solid : n <= m)

-----------------------------------------------------------------------------
\* decodeURIComponent

HexVal(c) ==
  LET u == IndexIn(c, HexChars, 1)
      l == IndexIn(c, HexCharsLower, 1)
  IN IF u > 0 THEN u - 1 ELSE IF l > 0 THEN l - 1 ELSE -1

ByteChar(b) ==
  IF b < 96 THEN CharAt(AsciiLow, b - 31) ELSE CharAt(AsciiHigh, b - 96)

DecodableByte(b) == b \in (32..95) \cup (97..126)

\* the byte of the escape %XX at position i of s, -1 when s has no two
\* hexadecimal digits there
EscapeByte(s, i) ==
  IF i + 2 > Len(s) THEN -1
  ELSE LET h1 == HexVal(CharAt(s, i + 1))
           h2 == HexVal(CharAt(s, i + 2))
       IN IF h1 < 0 \/ h2 < 0 THEN -1 ELSE 16 * h1 + h2

\* decodeURIComponent: ok = FALSE is the URIError ("URI malformed") thrown
\* for a '%' that is not followed by two hexadecimal digits or that denotes
\* a byte that is no character.  Every '%' of s starts an escape (the two
\* characters of an escape are hexadecimal digits, never '%').
decodeURIComponent(s) ==
  LET escapes == {j \in 1..Len(s) : CharAt(s, j) = "%"}
      piece(j) == IF j \in escapes THEN ByteChar(EscapeByte(s, j))
                  ELSE IF j - 1 \in escapes \/ j - 2 \in escapes THEN ""
                  ELSE CharAt(s, j)
  IN IF \E j \in escapes : ~DecodableByte(EscapeByte(s, j))
     THEN [ok |-> FALSE, v |-> ""]
     ELSE [ok |-> TRUE, v |-> Join([j \in 1..Len(s) |-> piece(j)], 1, Len(s))]

-----------------------------------------------------------------------------
\* extractTitleFromUrl

\* results of a JavaScript call: a string, null, or a thrown exception
Str(s) == [t |-> "str", v |-> s]
Null == [t |-> "null", v |-> ""]
Throw(e) == [t |-> "throw", v |-> e]

\* /\/pages\/\d+\/([^\/\?]+)/ matched with its first character at i
PagesTitleMatchAt(url, i) ==
  LET d == i + 7
      e == RunEnd(url, d, DigitChars, TRUE)
      f == RunEnd(url, e + 1, "/?", FALSE)
  IN /\ StartsAt(url, i, "/pages/")
     /\ e > d
     /\ StartsAt(url, e, "/")
     /\ f > e + 1

\* a capture group that stops at '/' only: ([^\/]+)
PagesTitleGroupToSlash(url, i) ==
  LET e == RunEnd(url, i + 7, DigitChars, TRUE)
      f == RunEnd(url, e + 1, "/", FALSE)
  IN SubSeq(url, e + 1, f - 1)

\* capture group 1 of that match
PagesTitleGroup(url, i) ==
  LET e == RunEnd(url, i + 7, DigitChars, TRUE)
      f == RunEnd(url, e + 1, "/?", FALSE)
  IN SubSeq(url, e + 1, f - 1)

\* /[?&]title=([^&]+)/ matched with its first character at i
TitleParamMatchAt(url, i) ==
  /\ (StartsAt(url, i, "?") \/ StartsAt(url, i, "&"))
  /\ StartsAt(url, i + 1, "title=")
  /\ RunEnd(url, i + 7, "&", FALSE) > i + 7

TitleParamGroup(url, i) == SubSeq(url, i + 7, RunEnd(url, i + 7, "&", FALSE) - 1)

\* String.prototype.match returns the leftmost match
Leftmost(S) == MinOf(S)

extractTitleFromUrl(url) ==
  IF url = "" THEN Null
  ELSE LET pm == {i \in 1..Len(url) : PagesTitleMatchAt(url, i)}
           qm == {i \in 1..Len(url) : TitleParamMatchAt(url, i)}
       IN IF pm # {}
          THEN LET dec == decodeURIComponent(PagesTitleGroup(url, Leftmost(pm)))
               IN IF ~dec.ok THEN Throw("URIError")
                  ELSE Str(trim(replaceChar(replaceChar(dec.v, "+", " "), "-", " ")))
          ELSE IF qm # {}
          THEN LET dec == decodeURIComponent(TitleParamGroup(url, Leftmost(qm)))
               IN IF ~dec.ok THEN Throw("URIError")
                  ELSE Str(trim(replaceChar(dec.v, "+", " ")))
          ELSE Null

-----------------------------------------------------------------------------
\* Values

\* a JavaScript value that is an array or null
NullList == [isNull |-> TRUE, items |-> <<>>]
List(items) == [isNull |-> FALSE, items |-> items]

\* Array.prototype.filter with the predicate given as the set of kept indices
RECURSIVE FilterFrom(_, _, _)
FilterFrom(seq, keep, i) ==
  IF i > Len(seq) THEN <<>>
  ELSE (IF i \in keep THEN <<seq[i]>> ELSE <<>>) \o FilterFrom(seq, keep, i + 1)

\* one element of the remote-link array Jira answers with:
\* { relationship, object: { url, title } }
RawLink(relationship, url, title) ==
  [relationship |-> relationship, url |-> url, title |-> title]

\* outcomes of axios.get(.../remotelink): a 2xx response whose body is a JSON
\* array, a 2xx response with any other body, a response with another status
\* (axios rejects, err.response is set), or no response at all (timeout,
\* refused connection: axios rejects, err.response is undefined)
RespArray(data) == [kind |-> "array", status |-> 200, data |-> data]
RespOther == [kind |-> "other", status |-> 200, data |-> <<>>]
RespStatus(status) == [kind |-> "status", status |-> status, data |-> <<>>]
RespNone(message) == [kind |-> message, status |-> 0, data |-> <<>>]

Rejects(outcome) == outcome.kind \notin {"array", "other"}

-----------------------------------------------------------------------------
\* Inputs of the report request: what Jira answers for each issue

NumIssues == 11
MaxShift == 2

WikiBase == "https://confluence.eng.nutanix.com:8443/spaces/ED"
CloudBase == "https://nutanix.atlassian.net/wiki"

LinkCg == RawLink("mentioned in", WikiBase \o "/pages/468276167/NDB-2.10+CG+Readiness", "")
LinkPg == RawLink("Wiki Page", WikiBase \o "/pages/460996552/NDB-2.10+PG+Readiness?src=jira", "Page")
LinkCgTitled == RawLink("Mentioned In", CloudBase \o "/pages/viewpage.action?pageId=41", "NDB 2.10 CG Readiness")
LinkBoth == RawLink("", CloudBase \o "/pages/viewpage.action?pageId=42", "CG Readiness and PG Readiness")
LinkNotes == RawLink("mentioned in", CloudBase \o "/pages/viewpage.action?pageId=43", "Meeting Notes")
LinkRandom == RawLink("links to", WikiBase \o "/pages/44/Random-Notes", "")
LinkNoTitle == RawLink("mentioned in", CloudBase \o "/pages/viewpage.action?pageId=45", "")
LinkPage == RawLink("Wiki Page", CloudBase \o "/pages/viewpage.action?pageId=46", "Page")
LinkMalformed == RawLink("mentioned in", WikiBase \o "/pages/47/Budget+100%", "Budget")
LinkJira == RawLink("mentioned in", "https://jira.nutanix.com/browse/FEAT-1?x=cg-readiness", "CG Readiness")
LinkNoObject == RawLink("relates to", "", "")

Outcomes ==
  << RespArray(<<LinkCg, LinkRandom>>),
     RespStatus(404),
     RespArray(<<LinkNotes>>),
     RespNone("timeout of 10000ms exceeded"),
     RespArray(<<LinkJira, LinkNoTitle, LinkPage, LinkNotes>>),
     RespStatus(401),
     RespArray(<<>>),
     RespArray(<<LinkPg, LinkJira, LinkBoth, LinkCgTitled>>),
     RespStatus(403),
     RespArray(<<LinkCg, LinkMalformed, LinkNotes>>),
     RespNone("connect ECONNREFUSED"),
     RespOther,
     RespArray(<<LinkJira, LinkNoObject>>),
     RespStatus(500),
     RespArray(<<LinkRandom, LinkPg, LinkNotes>>),
     RespArray(<<LinkMalformed>>) >>

\* The answer for the first issue is any outcome; the other issues take
\* every third outcome in turn, starting from a shift.
Answers(first, shift) ==
  [k \in 1..NumIssues |->
     IF k = 1 THEN Outcomes[first]
     ELSE Outcomes[((3 * k + shift) % Len(Outcomes)) + 1]]

-----------------------------------------------------------------------------
\* fetchRemoteLinksForIssues: the per-issue callback

batchSize == 10

\* the local helper extractPageId; null is the empty string (a match of
\* \d+ is never empty)
PageIdMatchAt(url, i, prefix) ==
  /\ StartsAt(url, i, prefix)
  /\ RunEnd(url, i + Len(prefix), DigitChars, TRUE) > i + Len(prefix)

PageIdGroup(url, prefix) ==
  LET i == Leftmost({j \in 1..Len(url) : PageIdMatchAt(url, j, prefix)})
  IN SubSeq(url, i + Len(prefix), RunEnd(url, i + Len(prefix), DigitChars, TRUE) - 1)

extractPageId(url) ==
  IF url = "" THEN ""
  ELSE IF \E j \in 1..Len(url) : PageIdMatchAt(url, j, "pageId=")
    THEN PageIdGroup(url, "pageId=")
  ELSE IF \E j \in 1..Len(url) : PageIdMatchAt(url, j, "/pages/")
    THEN PageIdGroup(url, "/pages/")
  ELSE IF \E j \in 1..Len(url) : PageIdMatchAt(url, j, "pages/")
    THEN PageIdGroup(url, "pages/")
  ELSE ""

\* the filter for "mentioned in" links
IsMentionedIn(link) == includes(toLowerCase(link.relationship), "mention")

\* the wiki-origin test of the confluenceLinks map
IsConfluenceUrl(url) ==
  /\ url # ""
  /\ \/ includes(url, "confluence")
     \/ includes(url, "atlassian.net/wiki")
     \/ includes(url, "confluence.eng.nutanix.com")

\* the object the map callback returns for a wiki-origin link;
\* extractTitleFromUrl is called before object.title is looked at
ConfluenceLink(link) ==
  LET titleFromUrl == extractTitleFromUrl(link.url)
  IN [url |-> link.url,
      pageId |-> extractPageId(link.url),
      title |-> IF link.title # "" THEN link.title
                ELSE IF titleFromUrl.t = "str" THEN titleFromUrl.v ELSE "",
      relationship |-> link.relationship]

\* the map callback throws when extractTitleFromUrl throws
MapThrowsAt(data, j) ==
  IsConfluenceUrl(data[j].url) /\ extractTitleFromUrl(data[j].url).t = "throw"

RECURSIVE ConfluenceLinksFrom(_, _)
\* a map that turns every link of the response into an entry, without the
\* wiki-origin test
EveryLinkFrom(data, j) ==
  [n \in 1..(Len(data) - j + 1) |-> ConfluenceLink(data[n + j - 1])]

\* .map(...).filter(link => link !== null) of a response that does not throw
ConfluenceLinksFrom(data, j) ==
  IF j > Len(data) THEN <<>>
  ELSE (IF IsConfluenceUrl(data[j].url) THEN <<ConfluenceLink(data[j])>> ELSE <<>>)
       \o ConfluenceLinksFrom(data, j + 1)

\* a catch block that logs the error and throws it again when it is an
\* authentication failure
CatchRethrowsAuth(st, thrown) ==
  IF thrown.status \in {401, 403}
  THEN [st EXCEPT !.errorCount = @ + 1, !.rejected = TRUE]
  ELSE [st EXCEPT !.errorCount = @ + 1]

\* a catch block that only absorbs errors without a response
CatchRethrowsHttp(st, thrown) ==
  IF thrown.kind = "status"
  THEN [st EXCEPT !.errorCount = @ + 1, !.rejected = TRUE]
  ELSE [st EXCEPT !.errorCount = @ + 1]

\* What the catch block of the per-issue callback does with the error: it
\* counts and logs it, whatever its status, and the callback returns normally.
CatchLookupError(st, thrown) ==
  [st EXCEPT !.errorCount = @ + 1]

\* The part of the try block that depends on the response body alone:
\* the "mentioned in" links, whether the map callback throws, and the
\* wiki-origin links when it does not.
Processed(data) ==
  LET thrown == \E j \in 1..Len(data) : MapThrowsAt(data, j)
  IN [mentionedInLinks |->
        FilterFrom(data, {j \in 1..Len(data) : IsMentionedIn(data[j])}, 1),
      thrown |-> thrown,
      confluenceLinks |-> IF thrown THEN <<>> ELSE ConfluenceLinksFrom(data, 1)]

\* Processed, tabulated over the response bodies of the inputs
ProcessedOf == [n \in 1..Len(Outcomes) |-> Processed(Outcomes[n].data)]

OutcomeIndex(outcome) == CHOOSE n \in 1..Len(Outcomes) : Outcomes[n] = outcome

\* a callback that appends what it found to lists, in the order in which
\* the lookups complete, instead of storing it under the key of its issue
StoreLinksInArrivalOrder(st, key, p) ==
  LET st1 == IF Len(p.mentionedInLinks) > 0
             THEN [st EXCEPT !.remoteLinksMap =
                               (Cardinality(DOMAIN @) + 1 :> p.mentionedInLinks) @@ @,
                             !.fetchedCount = @ + 1]
             ELSE st
  IN IF p.thrown
     THEN CatchLookupError(st1, RespNone("URI malformed"))
     ELSE IF Len(p.confluenceLinks) > 0
          THEN [st1 EXCEPT !.allConfluenceLinksMap =
                             (Cardinality(DOMAIN @) + 1 :> p.confluenceLinks) @@ @]
          ELSE st1

\* The try block once the response body is known to be an array, p being
\* what Processed makes of the body: remoteLinksMap is assigned before
\* the map of the wiki-origin links runs, allConfluenceLinksMap after it.
StoreLinks(st, key, p) ==
  LET st1 == IF Len(p.mentionedInLinks) > 0
             THEN [st EXCEPT !.remoteLinksMap = (key :> p.mentionedInLinks) @@ @,
                             !.fetchedCount = @ + 1]
             ELSE st
  IN IF p.thrown
     THEN CatchLookupError(st1, RespNone("URI malformed"))
     ELSE IF Len(p.confluenceLinks) > 0
          THEN [st1 EXCEPT !.allConfluenceLinksMap = (key :> p.confluenceLinks) @@ @]
          ELSE st1

\* The body of the per-issue callback after its await, run to completion:
\* st holds remoteLinksMap, allConfluenceLinksMap, fetchedCount, errorCount
\* and rejected (the callback's promise rejects).
LookupCallback(st, key, outcome) ==
  IF Rejects(outcome) THEN CatchLookupError(st, outcome)
  ELSE IF outcome.kind # "array" THEN st
  ELSE StoreLinks(st, key, ProcessedOf[OutcomeIndex(outcome)])

-----------------------------------------------------------------------------
\* GET /api/fetch-all-data: the enrichment callback

\* a CG filter that compares the title as it is written
IsCgLinkCaseSensitive(link) ==
  LET url == toLowerCase(link.url)
  IN \/ includes(link.title, "cg readiness") \/ includes(link.title, "cg checklist")
     \/ includes(url, "cg+readiness") \/ includes(url, "cg-readiness")
     \/ includes(url, "cg+checklist") \/ includes(url, "cg-checklist")

\* a CG filter that looks at the URL only when the link has no title
IsCgLinkTitleFirst(link) ==
  LET title == toLowerCase(link.title)
      url == toLowerCase(link.url)
  IN IF link.title # ""
     THEN includes(title, "cg readiness") \/ includes(title, "cg checklist")
     ELSE \/ includes(url, "cg+readiness") \/ includes(url, "cg-readiness")
          \/ includes(url, "cg+checklist") \/ includes(url, "cg-checklist")

\* the predicate of the cgLinks filter
IsCgLink(link) ==
  LET title == toLowerCase(link.title)
      url == toLowerCase(link.url)
  IN \/ includes(title, "cg readiness") \/ includes(title, "cg checklist")
     \/ includes(url, "cg+readiness") \/ includes(url, "cg-readiness")
     \/ includes(url, "cg+checklist") \/ includes(url, "cg-checklist")

\* a PG filter without the checklist patterns of the URL
IsPgLinkReadinessOnly(link) ==
  LET title == toLowerCase(link.title)
      url == toLowerCase(link.url)
  IN \/ includes(title, "pg readiness") \/ includes(title, "pg checklist")
     \/ includes(url, "pg+readiness") \/ includes(url, "pg-readiness")

\* the predicate of the pgLinks filter
IsPgLink(link) ==
  LET title == toLowerCase(link.title)
      url == toLowerCase(link.url)
  IN \/ includes(title, "pg readiness") \/ includes(title, "pg checklist")
     \/ includes(url, "pg+readiness") \/ includes(url, "pg-readiness")
     \/ includes(url, "pg+checklist") \/ includes(url, "pg-checklist")

\* link.title && link.title !== 'Page' ? link.title : (extractedTitle || fallback)
DisplayLink(link, fallback) ==
  LET extractedTitle == extractTitleFromUrl(link.url)
  IN [url |-> link.url,
      title |-> IF link.title # "" /\ link.title # "Page" THEN link.title
                ELSE IF extractedTitle.t = "str" /\ extractedTitle.v # ""
                     THEN extractedTitle.v
                     ELSE fallback]

\* a fallback title numbered from 0
LinkNFromZero(idx) == "Link " \o ToString(idx)

\* the fallback title of the idx-th (from 0) link of the broadcast: `Link ${idx + 1}`
LinkN(idx) == "Link " \o ToString(idx + 1)

\* allConfluenceLinks.filter(IsCgLink).map(...)
CgLinks(links) ==
  LET kept == FilterFrom(links, {n \in 1..Len(links) : IsCgLink(links[n])}, 1)
  IN [n \in 1..Len(kept) |-> DisplayLink(kept[n], "CG Readiness")]

\* a PG filter that skips the links already taken as CG
PgLinksExclusive(links) ==
  LET kept == FilterFrom(links, {n \in 1..Len(links) :
                                   IsPgLink(links[n]) /\ ~IsCgLink(links[n])}, 1)
  IN [n \in 1..Len(kept) |-> DisplayLink(kept[n], "PG Readiness")]

\* allConfluenceLinks.filter(IsPgLink).map(...)
PgLinks(links) ==
  LET kept == FilterFrom(links, {n \in 1..Len(links) : IsPgLink(links[n])}, 1)
  IN [n \in 1..Len(kept) |-> DisplayLink(kept[n], "PG Readiness")]

\* allConfluenceLinks.map((link, idx) => ...) of the fallback branch
AllLinks(links) ==
  [n \in 1..Len(links) |-> DisplayLink(links[n], LinkN(n - 1))]

\* _readinessLinks that stores the filtered arrays as they are, empty or not
ReadinessLinksNoNull(allConfluenceLinks) ==
  LET cgLinks == CgLinks(allConfluenceLinks)
      pgLinks == PgLinks(allConfluenceLinks)
  IN IF Len(cgLinks) = 0 /\ Len(pgLinks) = 0 /\ Len(allConfluenceLinks) > 0
     THEN [cg |-> List(AllLinks(allConfluenceLinks)),
           pg |-> List(AllLinks(allConfluenceLinks))]
     ELSE [cg |-> List(cgLinks), pg |-> List(pgLinks)]

\* _readinessLinks that falls back to all links for each empty column on its own
ReadinessLinksPerColumn(allConfluenceLinks) ==
  LET cgLinks == CgLinks(allConfluenceLinks)
      pgLinks == PgLinks(allConfluenceLinks)
      fallback == IF Len(allConfluenceLinks) > 0
                  THEN List(AllLinks(allConfluenceLinks)) ELSE NullList
  IN [cg |-> IF Len(cgLinks) > 0 THEN List(cgLinks) ELSE fallback,
      pg |-> IF Len(pgLinks) > 0 THEN List(pgLinks) ELSE fallback]

\* issue._readinessLinks for an issue whose wiki links are allConfluenceLinks
ReadinessLinks(allConfluenceLinks) ==
  LET cgLinks == CgLinks(allConfluenceLinks)
      pgLinks == PgLinks(allConfluenceLinks)
  IN IF Len(cgLinks) = 0 /\ Len(pgLinks) = 0 /\ Len(allConfluenceLinks) > 0
     THEN [cg |-> List(AllLinks(allConfluenceLinks)),
           pg |-> List(AllLinks(allConfluenceLinks))]
     ELSE [cg |-> IF Len(cgLinks) > 0 THEN List(cgLinks) ELSE NullList,
           pg |-> IF Len(pgLinks) > 0 THEN List(pgLinks) ELSE NullList]

\* the enrichment callback throws when a call of extractTitleFromUrl it
\* makes throws: on a link that passes a filter, or on any link in the
\* fallback branch
EnrichThrows(links) ==
  LET thr == {n \in 1..Len(links) : extractTitleFromUrl(links[n].url).t = "throw"}
      cg == {n \in 1..Len(links) : IsCgLink(links[n])}
      pg == {n \in 1..Len(links) : IsPgLink(links[n])}
  IN \/ thr \cap (cg \cup pg) # {}
     \/ cg = {} /\ pg = {} /\ thr # {}

\* the categories of a link: the filters it passes
Classify(link) ==
  (IF IsCgLink(link) THEN {"CG"} ELSE {}) \cup (IF IsPgLink(link) THEN {"PG"} ELSE {})

\* map[issue.key] || []
Lookup(map, key) == IF key \in DOMAIN map THEN map[key] ELSE <<>>

-----------------------------------------------------------------------------
\* JiraClient.formatIssues: the columns of type 'confluence'

\* Array.prototype.join
RECURSIVE JoinWith(_, _)
JoinWith(strs, sep) ==
  IF Len(strs) = 0 THEN ""
  ELSE IF Len(strs) = 1 THEN strs[1]
  ELSE strs[1] \o sep \o JoinWith(Tail(strs), sep)

Column(key, jiraField) == [key |-> key, jiraField |-> jiraField, type |-> "confluence"]

\* column.key === 'cg' || column.jiraField === 'customfield_10000'
IsCgColumn(column) == column.key = "cg" \/ column.jiraField = "customfield_10000"

\* column.key === 'pg' || column.jiraField === 'customfield_10001'
IsPgColumn(column) == column.key = "pg" \/ column.jiraField = "customfield_10001"

\* an issue as formatIssues receives it: with or without _readinessLinks
IssueWith(links) == [has |-> TRUE, links |-> links]
IssueWithout == [has |-> FALSE, links |-> [cg |-> NullList, pg |-> NullList]]

\* issue._readinessLinks?.cg or issue._readinessLinks?.pg
ColumnLinks(column, issue) ==
  IF ~issue.has THEN NullList
  ELSE IF IsCgColumn(column) THEN issue.links.cg ELSE issue.links.pg

\* a cell that shows the titles of the links
FormatByTitle(column, readinessLinks) ==
  IF ~readinessLinks.isNull /\ Len(readinessLinks.items) > 0
  THEN [fields |-> {column.key, column.key \o "_links"},
        cell |-> Str(JoinWith([n \in 1..Len(readinessLinks.items) |->
                                readinessLinks.items[n].title], ", ")),
        links |-> readinessLinks.items]
  ELSE [fields |-> {column.key}, cell |-> Str("No link"), links |-> <<>>]

\* What the branch of a CG or PG column assigns to formattedIssue: the
\* fields it sets, the value of the cell and the value of <key>_links.  A
\* non-empty array whose first element has no url is joined as it is (each
\* object prints as [object Object]); an empty array is truthy and becomes
\* the cell itself.
FormatReadiness(column, readinessLinks) ==
  IF ~readinessLinks.isNull /\ Len(readinessLinks.items) > 0
  THEN IF readinessLinks.items[1].url # ""
       THEN [fields |-> {column.key, column.key \o "_links"},
             cell |-> Str(JoinWith([n \in 1..Len(readinessLinks.items) |->
                                     readinessLinks.items[n].url], ", ")),
             links |-> readinessLinks.items]
       ELSE [fields |-> {column.key},
             cell |-> Str(JoinWith([n \in 1..Len(readinessLinks.items) |->
                                     "[object Object]"], ", ")),
             links |-> <<>>]
  ELSE IF ~readinessLinks.isNull
  THEN [fields |-> {column.key}, cell |-> [t |-> "array", v |-> ""], links |-> <<>>]
  ELSE [fields |-> {column.key}, cell |-> Str("No link"), links |-> <<>>]

-----------------------------------------------------------------------------
\* getPort

\* a JavaScript number: an integer or NaN
Num(n) == [t |-> "num", n |-> n]
NaN == [t |-> "nan", n |-> 0]

RECURSIVE DigitsValue(_, _, _, _)
\* the number that the digits s[lo], ..., s[hi - 1] denote in the radix
DigitsValue(s, lo, hi, radix) ==
  IF hi <= lo THEN 0
  ELSE radix * DigitsValue(s, lo, hi - 1, radix) + HexVal(CharAt(s, hi - 1))

\* parseInt(s) without a radix: leading whitespace is skipped, a sign is
\* taken, 0x or 0X selects radix 16, the longest run of digits is read and
\* what follows is ignored; NaN when there is no digit
parseInt(s) ==
  LET start == RunEnd(s, 1, " ", TRUE)
      signed == StartsAt(s, start, "-") \/ StartsAt(s, start, "+")
      body == IF signed THEN start + 1 ELSE start
      hex == StartsAt(s, body, "0x") \/ StartsAt(s, body, "0X")
      first == IF hex THEN body + 2 ELSE body
      last == IF hex THEN RunEnd(s, first, HexChars \o "abcdef", TRUE)
              ELSE RunEnd(s, first, DigitChars, TRUE)
      value == DigitsValue(s, first, last, IF hex THEN 16 ELSE 10)
  IN IF last = first THEN NaN
     ELSE Num(IF StartsAt(s, start, "-") THEN 0 - value ELSE value)

DefaultPort == 7842
FallbackPort == 3001

\* config.json: absent or not JSON, or an object with or without server,
\* with or without server.port (port 0 stands for a missing or falsy port)
ConfigMissing == [readable |-> FALSE, hasServer |-> FALSE, port |-> 0]
ConfigFile(hasServer, port) == [readable |-> TRUE, hasServer |-> hasServer, port |-> port]

\* config.server?.port || fallback
ServerPortOr(config, fallback) ==
  IF config.hasServer /\ config.port # 0 THEN config.port ELSE fallback

\* getPort of jira-client-clean.js; env is process.env.PORT, "" when unset
getPort(env, config) ==
  IF env # "" THEN parseInt(env)
  ELSE IF config.readable THEN Num(ServerPortOr(config, DefaultPort))
  ELSE Num(FallbackPort)

\* getPort of server.js
serverGetPort(env, config) ==
  IF env # "" THEN parseInt(env)
  ELSE IF config.readable THEN Num(ServerPortOr(config, FallbackPort))
  ELSE Num(FallbackPort)

-----------------------------------------------------------------------------
\* JiraClient: the Jira search

\* What axios.post(.../rest/api/2/search) settles with.  validateStatus
\* accepts every status from 200 to 599, so a response of any status
\* resolves; without a response (timeout, refused connection) it rejects.
\* body is what response.data is: an object with a non-empty issues array
\* ("issues"), with an empty one ("noIssues"), with errorMessages
\* ("errorMessages"), with the message 'Basic Authentication has been
\* disabled on this instance' ("disabled"), another object ("object"), an
\* HTML page ("html", content-type text/html) or another string ("text").
SearchResponse(status, body) ==
  [responded |-> TRUE, status |-> status, body |-> body, message |-> ""]
NoSearchResponse(message) ==
  [responded |-> FALSE, status |-> 0, body |-> "", message |-> message]

\* response.statusText
StatusText(status) ==
  CASE status = 200 -> "OK"
    [] status = 302 -> "Found"
    [] status = 401 -> "Unauthorized"
    [] status = 403 -> "Forbidden"
    [] status = 404 -> "Not Found"
    [] status = 500 -> "Internal Server Error"
    [] status = 503 -> "Service Unavailable"
    [] OTHER -> ""

\* responseData.errorMessages of a body with errorMessages
ErrorMessages == <<"The value 'NDB-StatusUpdates' does not exist for the field 'filter'.", "Bad JQL">>

\* an Error: message, and error.response?.status (0 when the error has no
\* response)
Error(message) == [message |-> message, status |-> 0]

\* how a request of a method ends: the method returns the response, it
\* throws, or it goes on to the request of its next format
Returned(response) ==
  [ok |-> TRUE, again |-> FALSE, response |-> response, error |-> Error("")]
Thrown(error) ==
  [ok |-> FALSE, again |-> FALSE, response |-> NoSearchResponse(""), error |-> error]
GoOn ==
  [ok |-> FALSE, again |-> TRUE, response |-> NoSearchResponse(""), error |-> Error("")]

\* response.data?.message
DataMessage(body) ==
  IF body = "disabled" THEN "Basic Authentication has been disabled on this instance" ELSE ""

\* tryBearerTokenRequest once its request has settled: the response is
\* returned when it has status 200 and a JSON object as body; in every
\* other case an Error without response is thrown (the catch block logs
\* and throws it again)
tryBearerTokenRequest(outcome) ==
  IF ~outcome.responded THEN Thrown(Error(outcome.message))
  ELSE IF outcome.status # 200
  THEN IF outcome.status \in {401, 403}
       THEN Thrown(Error("Authentication failed. Please check your Bearer token (PAT) is valid and has not expired."))
       ELSE IF outcome.status = 302
       THEN Thrown(Error("Authentication redirect detected. Please verify your Bearer token is correct."))
       ELSE IF outcome.body = "html"
       THEN Thrown(Error("Received HTML instead of JSON. Please check your Bearer token is valid."))
       ELSE IF outcome.body = "errorMessages"
       THEN Thrown(Error("Jira API error: " \o JoinWith(ErrorMessages, "; ")))
       ELSE Thrown(Error("HTTP " \o ToString(outcome.status) \o ": " \o
                         (IF StatusText(outcome.status) # ""
                          THEN StatusText(outcome.status) ELSE "Unknown error")))
  ELSE IF outcome.body = "html"
  THEN Thrown(Error("Received HTML response instead of JSON. Please verify your Bearer token."))
  ELSE IF outcome.body = "text"
  THEN Thrown(Error("Invalid response format from Jira API. Expected JSON but got: string"))
  ELSE Returned(outcome)

\* the number of headerFormats of tryPATTokenRequest
HeaderFormats == 4

\* usernameFormats of tryBasicAuthRequest
usernameFormats(username) ==
  <<username,
    username \o "@nutanix.com",
    IF includes(username, "@") THEN username ELSE username \o "@nutanix.com">>

\* userFormat === usernameFormats[usernameFormats.length - 1], a comparison
\* of strings: a format that reads like the last one counts as the last
IsLastUsername(username, format) ==
  usernameFormats(username)[format] =
    usernameFormats(username)[Len(usernameFormats(username))]

\* tryPATTokenRequest once the request of its header format number format
\* has settled: status 200 returns the response; any other response goes
\* on to the next format, and past the last one the method throws its own
\* error; a request without response is caught, and thrown again when the
\* format is the last
tryPATTokenRequest(format, outcome) ==
  IF ~outcome.responded
  THEN IF format = HeaderFormats THEN Thrown(Error(outcome.message)) ELSE GoOn
  ELSE IF outcome.status = 200 THEN Returned(outcome)
  ELSE IF format = HeaderFormats
  THEN Thrown(Error("All PAT token header formats failed"))
  ELSE GoOn

\* tryBasicAuthRequest once the request of its user name format number
\* format has settled: status 200 returns the response; status 403 with
\* the message that Basic authentication is disabled goes on to the next
\* format, and past the last one the method throws its own error; any
\* other response throws 'HTTP ...' into the catch block, which, like for
\* a request without response, throws the error again when the format
\* reads like the last one and lets the loop go on otherwise
tryBasicAuthRequest(username, format, outcome) ==
  IF outcome.responded /\ outcome.status = 200 THEN Returned(outcome)
  ELSE IF outcome.responded /\ outcome.status = 403 /\ outcome.body = "disabled"
  THEN IF format = Len(usernameFormats(username))
       THEN Thrown(Error("Basic Authentication has been disabled on this instance"))
       ELSE GoOn
  ELSE IF IsLastUsername(username, format)
  THEN IF outcome.responded
       THEN Thrown(Error("HTTP " \o ToString(outcome.status) \o ": " \o
                         (IF DataMessage(outcome.body) # "" THEN DataMessage(outcome.body)
                          ELSE StatusText(outcome.status))))
       ELSE Thrown(Error(outcome.message))
  ELSE GoOn

BearerMethod == "Bearer Token (API v2)"
PatMethod == "PAT Token Header"
BasicMethod == "Basic Auth"

\* authMethod.method(), at the request number format of the method
TryMethod(name, username, format, outcome) ==
  IF name = BearerMethod THEN tryBearerTokenRequest(outcome)
  ELSE IF name = PatMethod THEN tryPATTokenRequest(format, outcome)
  ELSE tryBasicAuthRequest(username, format, outcome)

\* token || this.pat
TokenToUse(token, pat) == IF token # "" THEN token ELSE pat

\* the list authMethods of makeJiraRequest
authMethods(tokenToUse) ==
  IF tokenToUse = "" THEN <<BearerMethod, PatMethod, BasicMethod>>
  ELSE <<BearerMethod>>

\* the Error makeJiraRequest throws when every method has failed; errors
\* holds the messages of the failed methods
AllMethodsFailed(errors) ==
  Error("All authentication methods failed. Last error: " \o
        (IF Len(errors) > 0 /\ errors[Len(errors)] # ""
         THEN errors[Len(errors)] ELSE "Unknown error"))

\* extractErrorMessage for an error without Jira error body
extractErrorMessage(error) ==
  IF error.status # 0
  THEN CASE error.status = 401 -> "Authentication failed. Please check your JIRA_API_TOKEN in .env file"
         [] error.status = 403 -> "Access forbidden. Please check your Jira permissions."
         [] error.status = 404 -> "Resource not found. Please check your Jira URL and filter ID."
         [] error.status = 500 -> "Jira server error. Please try again later."
         [] error.status = 503 -> "Jira service unavailable. Please try again later."
         [] OTHER -> "HTTP " \o ToString(error.status) \o ": " \o StatusText(error.status)
  ELSE IF includes(error.message, "timeout")
  THEN "Request timed out. Please check your network connection."
  ELSE IF error.message # "" THEN error.message
  ELSE "Unknown error occurred"

\* the catch block of fetchAllData
FetchAllDataCatch(error) ==
  Error("Failed to fetch all Jira data: " \o extractErrorMessage(error))

\* the HTTP answer of the endpoint
Answer(status, success, error) == [status |-> status, success |-> success, error |-> error]
NoAnswer == Answer(0, FALSE, "")

\* a catch block that answers 401 for an authentication failure
HandlerCatchByCause(error) ==
  Answer(IF includes(error.message, "Authentication failed") THEN 401 ELSE 500,
         FALSE, error.message)

\* the catch block of the handler: error.response?.status || 500
HandlerCatch(error) ==
  Answer(IF error.status # 0 THEN error.status ELSE 500, FALSE, error.message)

-----------------------------------------------------------------------------
\* State

\* GET /api/fetch-all-data
VARIABLES
  pc,          \* where the request handler is
  answer,      \* answer[k]: the outcome of the remote-link lookup of issue k
  batchI,      \* the loop variable i, counted from 1: first issue of the current batch
  pending,     \* issues of the current batch whose lookup has not settled
  fetch,       \* remoteLinksMap, allConfluenceLinksMap, fetchedCount, errorCount, rejected
  readiness,   \* readiness[k]: issue._readinessLinks of issue k, once enriched
  httpStatus   \* status of the HTTP response, 0 before it is sent

reqVars == <<pc, answer, batchI, pending, fetch, readiness, httpStatus>>

\* a call of extractTitleFromUrl
VARIABLES
  tPc,       \* "call", then "returned" or "thrown"
  tParts,    \* the pieces the URL is made of
  tUrl,      \* the argument
  tResult    \* what the call returned or threw

titleVars == <<tPc, tParts, tUrl, tResult>>

\* a call of getPageTitle
VARIABLES
  rPc,         \* "call", "basic", "bearer", then "returned" or "thrown"
  rUrl,        \* confluenceUrl
  rUserToken,  \* userToken is given
  rOwnToken,   \* this.token is set
  rRequests,   \* the requests sent so far: <<scheme, page id>>
  rResponse,   \* the variable response
  rResult      \* what the call returned or threw

resolverVars == <<rPc, rUrl, rUserToken, rOwnToken, rRequests, rResponse, rResult>>

\* a classification of one link by the cgLinks and pgLinks filters
VARIABLES
  cPc,         \* "call", then "done"
  cLink,       \* the link: title and url
  cCategories  \* the filters the link passed: a subset of {"CG", "PG"}

classVars == <<cPc, cLink, cCategories>>

\* a call of findReadinessLink
VARIABLES
  fPc,        \* "call", "loop", "busy" (inside an await), then "returned"
  fLinks,     \* remoteLinks
  fType,      \* type: "CG Readiness" or "PG Readiness"
  fHasToken,  \* confluenceClient && (confluenceToken || confluenceClient.token)
  fIdx,       \* the loop variable idx, counted from 1
  fRes,       \* per link: how far its resolution is, pageTitle, labels, and
              \* the status of the responses they were taken from
  fResult     \* the value returned

findVars == <<fPc, fLinks, fType, fHasToken, fIdx, fRes, fResult>>

\* the formatting of one CG or PG column of one issue by formatIssues
VARIABLES
  dPc,         \* "call", then "returned"
  dIssue,      \* the issue: whether it has _readinessLinks, and their value
  dColumn,     \* the column: key, jiraField, type
  dFormatted   \* what the column's branch assigned to formattedIssue

formatVars == <<dPc, dIssue, dColumn, dFormatted>>

\* a call of getPort when the server starts
VARIABLES
  gPc,      \* "call", then "returned"
  gFile,    \* the file whose getPort runs
  gEnv,     \* process.env.PORT, "" when unset
  gConfig,  \* what config.json holds
  gPort     \* the value returned

portVars == <<gPc, gFile, gEnv, gConfig, gPort>>

\* GET /api/fetch-all-data up to the call of fetchRemoteLinksForIssues, or
\* a call of makeJiraRequest from another caller
VARIABLES
  ePc,        \* "construct", "crashed" (the constructor threw), "handler" or
              \* "call", "search" (inside the await of a method), then
              \* "fetch" (fetchRemoteLinksForIssues was called), "done"
              \* (answered), "returned" or "thrown" (out of makeJiraRequest)
  eEntry,     \* the caller: "fetch-all-data" or "refreshColumns"
  eHeader,    \* the x-jira-token header, or the argument token; "" when absent
  ePat,       \* this.pat
  eUsername,  \* username of tryBasicAuthRequest: the configured one or the default
  eMethods,   \* the names of authMethods, <<>> before makeJiraRequest runs
  eErrors,    \* the messages of the methods that failed
  eCalls,     \* the outbound requests made: the method of a search request,
              \* "remotelink"
  eFormat,    \* the number of the request in flight among the requests of
              \* its method
  eResponse,  \* what the last search request settled with
  eSearch,    \* what makeJiraRequest returned or threw
  eAnswer     \* the HTTP answer of the endpoint

searchVars == <<ePc, eEntry, eHeader, ePat, eUsername, eMethods, eErrors, eCalls, eFormat, eResponse, eSearch, eAnswer>>

vars == <<reqVars, titleVars, resolverVars, classVars, findVars, formatVars, portVars, searchVars>>

\* what each operation leaves alone: the state of the other operations
exceptRequest == <<titleVars, resolverVars, classVars, findVars, formatVars, portVars, searchVars>>
exceptTitle == <<reqVars, resolverVars, classVars, findVars, formatVars, portVars, searchVars>>
exceptResolver == <<reqVars, titleVars, classVars, findVars, formatVars, portVars, searchVars>>
exceptClassify == <<reqVars, titleVars, resolverVars, findVars, formatVars, portVars, searchVars>>
exceptFind == <<reqVars, titleVars, resolverVars, classVars, formatVars, portVars, searchVars>>
exceptFormat == <<reqVars, titleVars, resolverVars, classVars, findVars, portVars, searchVars>>
exceptPort == <<reqVars, titleVars, resolverVars, classVars, findVars, formatVars, searchVars>>
exceptSearch == <<reqVars, titleVars, resolverVars, classVars, findVars, formatVars, portVars>>

-----------------------------------------------------------------------------
\* GET /api/fetch-all-data, from the return of the Jira search on.  Issue k
\* of data.issues has key k (keys are distinct).

EmptyFetch ==
  [remoteLinksMap |-> <<>>, allConfluenceLinksMap |-> <<>>,
   fetchedCount |-> 0, errorCount |-> 0, rejected |-> FALSE]

Min(a, b) == IF a < b THEN a ELSE b

InitRequest ==
  /\ pc = "loop"
  /\ \E first \in 1..Len(Outcomes), shift \in 0..MaxShift :
       answer = Answers(first, shift)
  /\ batchI = 1
  /\ pending = {}
  /\ fetch = EmptyFetch
  /\ readiness = <<>>
  /\ httpStatus = 0

\* a loop that starts the lookups of all remaining issues at once
StartAllLookups ==
  /\ pc = "loop"
  /\ batchI <= NumIssues
  /\ pending' = batchI..NumIssues
  /\ pc' = "await"
  /\ UNCHANGED <<answer, batchI, fetch, readiness, httpStatus>>
  /\ UNCHANGED exceptRequest

\* const promises = batch.map(async (issue) => ...): every callback of the
\* batch runs up to its await, so all requests of the batch are sent
StartBatch ==
  /\ pc = "loop"
  /\ batchI <= NumIssues
  /\ pending' = batchI..Min(batchI + batchSize - 1, NumIssues)
  /\ pc' = "await"
  /\ UNCHANGED <<answer, batchI, fetch, readiness, httpStatus>>
  /\ UNCHANGED exceptRequest

\* the lookup of issue k settles and its callback runs to completion; a
\* rejected callback rejects Promise.all, fetchRemoteLinksForIssues throws
\* and the handler's catch answers 500
LookupSettles(k) ==
  /\ pc = "await"
  /\ k \in pending
  /\ fetch' = LookupCallback(fetch, k, answer[k])
  /\ pending' = pending \ {k}
  /\ IF fetch'.rejected
     THEN pc' = "done" /\ httpStatus' = 500
     ELSE pc' = pc /\ httpStatus' = httpStatus
  /\ UNCHANGED <<answer, batchI, readiness>>
  /\ UNCHANGED exceptRequest

\* an await that does not wait for the last lookup of the batch
BatchDoneBeforeLast ==
  /\ pc = "await"
  /\ Cardinality(pending) <= 1
  /\ pc' = IF (batchI - 1) + batchSize < NumIssues THEN "delay" ELSE "enrich"
  /\ UNCHANGED <<answer, batchI, pending, fetch, readiness, httpStatus>>
  /\ UNCHANGED exceptRequest

\* await Promise.all(promises) returns; the loop goes on after the delay or ends
BatchDone ==
  /\ pc = "await"
  /\ pending = {}
  /\ pc' = IF (batchI - 1) + batchSize < NumIssues THEN "delay" ELSE "enrich"
  /\ UNCHANGED <<answer, batchI, pending, fetch, readiness, httpStatus>>
  /\ UNCHANGED exceptRequest

\* the 100 ms timer between batches fires; i += batchSize
DelayElapsed ==
  /\ pc = "delay"
  /\ batchI' = batchI + batchSize
  /\ pc' = "loop"
  /\ UNCHANGED <<answer, pending, fetch, readiness, httpStatus>>
  /\ UNCHANGED exceptRequest

\* Promise.all(data.issues.map(async (issue) => ...)): the callbacks have no
\* await and run one after the other inside the call of map
EnrichAll ==
  /\ pc = "enrich"
  /\ IF \E k \in 1..NumIssues : EnrichThrows(Lookup(fetch.allConfluenceLinksMap, k))
     THEN /\ pc' = "done"
          /\ httpStatus' = 500
          /\ UNCHANGED readiness
     ELSE /\ readiness' = [k \in 1..NumIssues |->
                             ReadinessLinks(Lookup(fetch.allConfluenceLinksMap, k))]
          /\ pc' = "respond"
          /\ UNCHANGED httpStatus
  /\ UNCHANGED <<answer, batchI, pending, fetch>>
  /\ UNCHANGED exceptRequest

\* res.json({ success: true, ... })
Respond ==
  /\ pc = "respond"
  /\ httpStatus' = 200
  /\ pc' = "done"
  /\ UNCHANGED <<answer, batchI, pending, fetch, readiness>>
  /\ UNCHANGED exceptRequest

NextRequest ==
  \/ StartBatch
  \/ \E k \in 1..NumIssues : LookupSettles(k)
  \/ BatchDone
  \/ DelayElapsed
  \/ EnrichAll
  \/ Respond

\* no report request is under way
IdleRequest ==
  /\ pc = "idle"
  /\ answer = <<>>
  /\ batchI = 1
  /\ pending = {}
  /\ fetch = EmptyFetch
  /\ readiness = <<>>
  /\ httpStatus = 0

-----------------------------------------------------------------------------
\* A call of extractTitleFromUrl

UrlBases ==
  { "",
    "https://confluence.eng.nutanix.com:8443/spaces/ED",
    "https://nutanix.atlassian.net/wiki/spaces/pages" }

\* the part that carries the page id
UrlMids ==
  { "/pages/468276167/",
    "/pages/7//pages/8/",
    "/pages/viewpage.action?pageId=12&x=",
    "/pages/12a/",
    "/display/ED/" }

\* the path segment after the page id
UrlSegments ==
  { "NDB-2.10+CG+Readiness", "Some-Page-Title", "Some+Page+Title", "a%20b",
    "%2Bx%2d", "x%2Fy", "Q%26A%3F", "+-+", "Page", "100%25",
    "Budget+100%", "%zz", "%2", "" }

UrlTails == { "", "?param=value", "/edit?x=1", "/pages/9/Other", "&title=A+B-C" }

UrlOf(parts) == parts.base \o parts.mid \o parts.seg \o parts.tail

InitTitle ==
  /\ tPc = "call"
  /\ tParts \in [base : UrlBases, mid : UrlMids, seg : UrlSegments, tail : UrlTails]
  /\ tUrl = UrlOf(tParts)
  /\ tResult = Null

IdleTitle ==
  /\ tPc = "idle"
  /\ tParts = [base |-> "", mid |-> "", seg |-> "", tail |-> ""]
  /\ tUrl = ""
  /\ tResult = Null

ExtractTitle ==
  /\ tPc = "call"
  /\ tResult' = extractTitleFromUrl(tUrl)
  /\ tPc' = IF tResult'.t = "throw" THEN "thrown" ELSE "returned"
  /\ UNCHANGED <<tParts, tUrl>>
  /\ UNCHANGED exceptTitle

NextTitle == ExtractTitle

-----------------------------------------------------------------------------
\* ConfluenceClient.getPageTitle(confluenceUrl, userToken), called with a string

\* extractUrl of a string
extractUrl(fieldValue) ==
  IF fieldValue # "" /\ StartsAt(fieldValue, 1, "http") THEN Str(fieldValue) ELSE Null

\* a page id extraction that answers "0" where no pattern matches
ExtractPageIdOrZero(url) ==
  IF extractPageId(url) = "" THEN "0" ELSE extractPageId(url)

\* ConfluenceClient.extractPageId of a string: the same three patterns as
\* the helper of fetchRemoteLinksForIssues
ClientExtractPageId(url) == extractPageId(url)

\* what the wiki answers to a page-metadata request: a response of any
\* status 200..599 (validateStatus accepts them all) with its body, or no
\* response (axios rejects).  title is data.title, "" when the body has none
\* (an error object, an HTML page, an empty body).
PageResponse(status, title) == [responded |-> TRUE, status |-> status, title |-> title]
NoPageResponse == [responded |-> FALSE, status |-> 0, title |-> ""]

PageStatuses == {200, 401, 403, 404, 500}
PageTitles == {"", "NDB 2.10 CG Readiness", "NDB 2.10 PG Readiness", "Login"}

PageOutcomes ==
  {PageResponse(st, ti) : st \in PageStatuses, ti \in PageTitles} \cup {NoPageResponse}

ResolverUrls ==
  { "",
    "not a url",
    "https://confluence.eng.nutanix.com:8443/display/ED/Home",
    "https://confluence.eng.nutanix.com:8443/display/ED/subpages/77",
    "https://confluence.eng.nutanix.com:8443/spaces/ED/pages/468276167/NDB-2.10+CG+Readiness",
    "https://nutanix.atlassian.net/wiki/pages/viewpage.action?pageId=12",
    "https://confluence.eng.nutanix.com:8443/spaces/ED/pages/47/Budget+100%" }

InitResolver ==
  /\ rPc = "call"
  /\ rUrl \in ResolverUrls
  /\ rUserToken \in BOOLEAN
  /\ rOwnToken \in BOOLEAN
  /\ rRequests = <<>>
  /\ rResponse = NoPageResponse
  /\ rResult = Null

IdleResolver ==
  /\ rPc = "idle"
  /\ rUrl = ""
  /\ rUserToken = FALSE
  /\ rOwnToken = FALSE
  /\ rRequests = <<>>
  /\ rResponse = NoPageResponse
  /\ rResult = Null

\* if (response && response.data) return response.data.title || null; return null
TitleOfResponse(response) ==
  IF response.responded /\ response.title # "" THEN Str(response.title) ELSE Null

\* an outer catch block that logs the error and throws it again
OuterCatchRethrows(error) == Throw(error)

\* the outer catch block: it logs (confluenceUrl is a string, so its
\* substring calls succeed) and returns null
OuterCatch(error) == Null

\* the call up to its first await: the early returns, or the Basic request
GetPageTitle ==
  /\ rPc = "call"
  /\ LET url == extractUrl(rUrl)
         pageId == IF url.t = "str" THEN ClientExtractPageId(url.v) ELSE ""
     IN IF url.t = "null" \/ pageId = "" \/ ~(rUserToken \/ rOwnToken)
        THEN /\ rPc' = "returned"
             /\ rResult' = Null
             /\ UNCHANGED rRequests
        ELSE /\ rPc' = "basic"
             /\ rRequests' = Append(rRequests, <<"Basic", pageId>>)
             /\ UNCHANGED rResult
  /\ UNCHANGED <<rUrl, rUserToken, rOwnToken, rResponse>>
  /\ UNCHANGED exceptResolver

\* a Basic attempt after which the Bearer request is sent whatever it gave
BasicSettlesBearerAnyway(outcome) ==
  /\ rPc = "basic"
  /\ rResponse' = outcome
  /\ rRequests' = Append(rRequests, <<"Bearer", rRequests[1][2]>>)
  /\ rPc' = "bearer"
  /\ UNCHANGED <<rUrl, rUserToken, rOwnToken, rResult>>
  /\ UNCHANGED exceptResolver

\* the Basic request settles: status 200 ends the attempts, anything else
\* (another status throws inside the try, no response rejects) goes to the
\* Bearer request
BasicSettles(outcome) ==
  /\ rPc = "basic"
  /\ IF outcome.responded /\ outcome.status = 200
     THEN /\ rResponse' = outcome
          /\ rResult' = TitleOfResponse(outcome)
          /\ rPc' = "returned"
          /\ UNCHANGED rRequests
     ELSE /\ rResponse' = outcome
          /\ rRequests' = Append(rRequests, <<"Bearer", rRequests[1][2]>>)
          /\ rPc' = "bearer"
          /\ UNCHANGED rResult
  /\ UNCHANGED <<rUrl, rUserToken, rOwnToken>>
  /\ UNCHANGED exceptResolver

\* the Bearer request settles: a response of any status is used; without a
\* response the inner catch throws (its JSON.stringify(undefined).substring
\* or its throw bearerError) into the outer catch
BearerSettles(outcome) ==
  /\ rPc = "bearer"
  /\ IF outcome.responded
     THEN /\ rResponse' = outcome
          /\ rResult' = TitleOfResponse(outcome)
     ELSE /\ UNCHANGED rResponse
          /\ rResult' = OuterCatch("TypeError")
  /\ rPc' = IF rResult'.t = "throw" THEN "thrown" ELSE "returned"
  /\ UNCHANGED <<rUrl, rUserToken, rOwnToken, rRequests>>
  /\ UNCHANGED exceptResolver

NextResolver ==
  \/ GetPageTitle
  \/ \E outcome \in PageOutcomes : BasicSettles(outcome)
  \/ \E outcome \in PageOutcomes : BearerSettles(outcome)

-----------------------------------------------------------------------------
\* The cgLinks / pgLinks filters applied to one link of allConfluenceLinks

ClassTitles ==
  { "", "Page", "page", "NDB 2.10 CG Readiness", "ndb 2.10 pg readiness",
    "CG READINESS and PG Readiness", "CG Checklist", "PG readiness review",
    "CGReadiness", "Meeting Notes" }

ClassUrls ==
  { "",
    CloudBase \o "/pages/viewpage.action?pageId=3",
    WikiBase \o "/pages/1/NDB-2.10+CG+Readiness",
    WikiBase \o "/pages/2/pg-checklist",
    WikiBase \o "/display/ED/CG-Readiness",
    WikiBase \o "/pages/4/CG%20Readiness",
    WikiBase \o "/pages/5/PG+Checklist+and+CG+Checklist",
    WikiBase \o "/pages/6/NDB+PG+Readiness?x=1",
    WikiBase \o "/pages/7/cg-checklist",
    WikiBase \o "/pages/8/cg_readiness",
    WikiBase \o "/pages/9/Release-pg-readiness" }

InitClassify ==
  /\ cPc = "call"
  /\ cLink \in [title : ClassTitles, url : ClassUrls]
  /\ cCategories = {}

IdleClassify ==
  /\ cPc = "idle"
  /\ cLink = [title |-> "", url |-> ""]
  /\ cCategories = {}

ClassifyLink ==
  /\ cPc = "call"
  /\ cCategories' = Classify(cLink)
  /\ cPc' = "done"
  /\ UNCHANGED cLink
  /\ UNCHANGED exceptClassify

NextClassify == ClassifyLink

-----------------------------------------------------------------------------
\* findReadinessLink(remoteLinks, type, confluenceClient, confluenceToken)

\* getPageTitle sends a request for a URL string: extractUrl gives a URL
\* and extractPageId a page id (the token is there)
HasPageId(url) == extractUrl(url).t = "str" /\ ClientExtractPageId(url) # ""

\* what getPageTitle returned, and the status of the response the title
\* was read from (0: from none)
Attempt(title, status) == [title |-> title, status |-> status]

\* what the wiki answers to a label request: labels is
\* response.data.metadata.labels.results as the set of the label names,
\* empty also when the body has no metadata.labels
LabelResponse(status, labels) == [responded |-> TRUE, status |-> status, labels |-> labels]
NoLabelResponse == [responded |-> FALSE, status |-> 0, labels |-> {}]

LabelOutcomes ==
  {LabelResponse(st, la) : st \in {200, 403}, la \in {{}, {"cg-readiness"}}}
  \cup {NoLabelResponse}

\* the answers to the title requests that a call of findReadinessLink meets
FindPageOutcomes ==
  {PageResponse(st, ti) : st \in {200, 403},
                          ti \in {"", "NDB 2.10 CG Readiness", "NDB 2.10 PG Readiness"}}
  \cup {NoPageResponse}

\* const searchTerm = type === 'CG Readiness' ? 'cg readiness' : 'pg readiness'
SearchTerm(type) == IF type = "CG Readiness" THEN "cg readiness" ELSE "pg readiness"

\* titleLower.includes(searchTerm)
TitleMatches(pageTitle, type) == includes(toLowerCase(pageTitle), SearchTerm(type))

\* the longest list of remote links
MaxLinks == 3

FindLinkLists ==
  { <<>>,
    <<LinkNotes, LinkCg>>,
    <<LinkPg, LinkJira, LinkCgTitled>>,
    <<LinkNoObject, LinkCg, LinkPg>> }

\* a link the loop has not come to
Untouched ==
  [phase |-> "todo", pageTitle |-> Null, titleStatus |-> 0,
   labels |-> {}, labelStatus |-> 0]

InitFind ==
  /\ fPc = "call"
  /\ fLinks \in FindLinkLists
  /\ fType \in {"CG Readiness", "PG Readiness"}
  /\ fHasToken \in BOOLEAN
  /\ fIdx = 1
  /\ fRes = [n \in 1..Len(fLinks) |-> Untouched]
  /\ fResult = Null

IdleFind ==
  /\ fPc = "idle"
  /\ fLinks = <<>>
  /\ fType = "CG Readiness"
  /\ fHasToken = FALSE
  /\ fIdx = 1
  /\ fRes = <<>>
  /\ fResult = Null

\* the function up to the loop: no links, or no client or token: 'No link'
EnterFind ==
  /\ fPc = "call"
  /\ IF Len(fLinks) = 0 \/ ~fHasToken
     THEN fPc' = "returned" /\ fResult' = Str("No link")
     ELSE fPc' = "loop" /\ UNCHANGED fResult
  /\ UNCHANGED <<fLinks, fType, fHasToken, fIdx, fRes>>
  /\ UNCHANGED exceptFind

\* a loop body that starts the resolution of a link and goes on to the
\* next link without waiting for it
StartLinkDetached ==
  /\ fPc = "loop"
  /\ fIdx <= Len(fLinks)
  /\ fRes' = [fRes EXCEPT ![fIdx].phase = "title"]
  /\ fIdx' = fIdx + 1
  /\ UNCHANGED <<fPc, fLinks, fType, fHasToken, fResult>>
  /\ UNCHANGED exceptFind

\* the loop body up to its first await: getPageTitle(url, confluenceToken)
\* is called for the link at idx
StartLink ==
  /\ fPc = "loop"
  /\ fIdx <= Len(fLinks)
  /\ fRes' = [fRes EXCEPT ![fIdx].phase = "title"]
  /\ fPc' = "busy"
  /\ UNCHANGED <<fLinks, fType, fHasToken, fIdx, fResult>>
  /\ UNCHANGED exceptFind

\* the record of a link once getPageTitle has returned: without a title
\* the link is given up, with one the Basic label request is sent (a title
\* implies a page id)
AfterTitle(rec, attempt) ==
  [rec EXCEPT !.pageTitle = attempt.title,
              !.titleStatus = attempt.status,
              !.phase = IF attempt.title.t = "str" THEN "labelBasic" ELSE "delay"]

\* getPageTitle returns null for link n without a request: its URL is no
\* URL or holds no page id
TitleReturnsNull(n) ==
  /\ n \in 1..Len(fLinks)
  /\ fRes[n].phase = "title"
  /\ ~HasPageId(fLinks[n].url)
  /\ fRes' = [fRes EXCEPT ![n] = AfterTitle(@, Attempt(Null, 0))]
  /\ UNCHANGED <<fPc, fLinks, fType, fHasToken, fIdx, fResult>>
  /\ UNCHANGED exceptFind

\* the Basic title request of link n settles: status 200 makes getPageTitle
\* return, anything else sends the Bearer title request
TitleBasicSettles(n, basic) ==
  /\ n \in 1..Len(fLinks)
  /\ fRes[n].phase = "title"
  /\ HasPageId(fLinks[n].url)
  /\ fRes' = IF basic.responded /\ basic.status = 200
             THEN [fRes EXCEPT ![n] = AfterTitle(@, Attempt(TitleOfResponse(basic), 200))]
             ELSE [fRes EXCEPT ![n].phase = "titleBearer"]
  /\ UNCHANGED <<fPc, fLinks, fType, fHasToken, fIdx, fResult>>
  /\ UNCHANGED exceptFind

\* the Bearer title request of link n settles and getPageTitle returns: a
\* response of any status gives its title, no response the outer catch
TitleBearerSettles(n, bearer) ==
  /\ n \in 1..Len(fLinks)
  /\ fRes[n].phase = "titleBearer"
  /\ fRes' = IF bearer.responded
             THEN [fRes EXCEPT ![n] = AfterTitle(@, Attempt(TitleOfResponse(bearer), bearer.status))]
             ELSE [fRes EXCEPT ![n] = AfterTitle(@, Attempt(OuterCatch("TypeError"), 0))]
  /\ UNCHANGED <<fPc, fLinks, fType, fHasToken, fIdx, fResult>>
  /\ UNCHANGED exceptFind

\* a check that takes a matching title only when the page carries a label
CheckTitleNeedsLabel(n, labels, status) ==
  /\ IF TitleMatches(fRes[n].pageTitle.v, fType) /\ labels # {}
     THEN /\ fRes' = [fRes EXCEPT ![n].labels = labels, ![n].labelStatus = status,
                                  ![n].phase = "done"]
          /\ fPc' = "returned"
          /\ fResult' = Str(fLinks[n].url)
     ELSE /\ fRes' = [fRes EXCEPT ![n].labels = labels, ![n].labelStatus = status,
                                  ![n].phase = "delay"]
          /\ UNCHANGED <<fPc, fResult>>
  /\ UNCHANGED <<fLinks, fType, fHasToken, fIdx>>
  /\ UNCHANGED exceptFind

\* the end of the try block for link n, the labels being known: a matching
\* title returns the URL, another one goes on to the delay
CheckTitle(n, labels, status) ==
  /\ IF TitleMatches(fRes[n].pageTitle.v, fType)
     THEN /\ fRes' = [fRes EXCEPT ![n].labels = labels, ![n].labelStatus = status,
                                  ![n].phase = "done"]
          /\ fPc' = "returned"
          /\ fResult' = Str(fLinks[n].url)
     ELSE /\ fRes' = [fRes EXCEPT ![n].labels = labels, ![n].labelStatus = status,
                                  ![n].phase = "delay"]
          /\ UNCHANGED <<fPc, fResult>>
  /\ UNCHANGED <<fLinks, fType, fHasToken, fIdx>>
  /\ UNCHANGED exceptFind

\* the Basic label request of link n settles: status 200 is used, anything
\* else sends the Bearer label request
LabelBasicSettles(n, outcome) ==
  /\ n \in 1..Len(fLinks)
  /\ fRes[n].phase = "labelBasic"
  /\ IF outcome.responded /\ outcome.status = 200
     THEN CheckTitle(n, outcome.labels, outcome.status)
     ELSE /\ fRes' = [fRes EXCEPT ![n].phase = "labelBearer"]
          /\ UNCHANGED <<fPc, fLinks, fType, fHasToken, fIdx, fResult>>
          /\ UNCHANGED exceptFind

\* the Bearer label request of link n settles: a response of any status is
\* used; without a response the request rejects into catch (labelError)
\* and labels stays []
LabelBearerSettles(n, outcome) ==
  /\ n \in 1..Len(fLinks)
  /\ fRes[n].phase = "labelBearer"
  /\ CheckTitle(n, outcome.labels, outcome.status)

\* the 200 ms timer after link n fires; idx++
LinkDelayElapsed(n) ==
  /\ n \in 1..Len(fLinks)
  /\ fRes[n].phase = "delay"
  /\ fRes' = [fRes EXCEPT ![n].phase = "done"]
  /\ fIdx' = fIdx + 1
  /\ fPc' = "loop"
  /\ UNCHANGED <<fLinks, fType, fHasToken, fResult>>
  /\ UNCHANGED exceptFind

\* the loop is over without a match
ReturnNoLink ==
  /\ fPc = "loop"
  /\ fIdx > Len(fLinks)
  /\ fPc' = "returned"
  /\ fResult' = Str("No link")
  /\ UNCHANGED <<fLinks, fType, fHasToken, fIdx, fRes>>
  /\ UNCHANGED exceptFind

NextFind ==
  \/ EnterFind
  \/ StartLink
  \/ \E n \in 1..MaxLinks : TitleReturnsNull(n)
  \/ \E n \in 1..MaxLinks, basic \in FindPageOutcomes : TitleBasicSettles(n, basic)
  \/ \E n \in 1..MaxLinks, bearer \in FindPageOutcomes : TitleBearerSettles(n, bearer)
  \/ \E n \in 1..MaxLinks, outcome \in LabelOutcomes : LabelBasicSettles(n, outcome)
  \/ \E n \in 1..MaxLinks, outcome \in LabelOutcomes : LabelBearerSettles(n, outcome)
  \/ \E n \in 1..MaxLinks : LinkDelayElapsed(n)
  \/ ReturnNoLink

-----------------------------------------------------------------------------
\* formatIssues, for one issue and one column of type 'confluence'

MaxCellLinks == 2

\* the default columns cg and pg, and user columns on the same fields
ConfluenceColumns ==
  { Column("cg", "customfield_10000"), Column("cgCompletion", "customfield_10000"),
    Column("pg", "customfield_10001"), Column("pgCompletion", "customfield_10001") }

\* entries of allConfluenceLinksMap the lists are made of
CellLinks ==
  { ConfluenceLink(LinkCg), ConfluenceLink(LinkPg),
    ConfluenceLink(LinkNotes), ConfluenceLink(LinkBoth) }

RECURSIVE ListsUpTo(_, _)
\* the sequences of at most n elements of S
ListsUpTo(S, n) ==
  IF n = 0 THEN {<<>>}
  ELSE LET shorter == ListsUpTo(S, n - 1)
       IN shorter \cup {Append(l, x) : l \in shorter, x \in S}

\* the issues: enriched by the endpoint, or formatted without enrichment
FormatIssues ==
  {IssueWith(ReadinessLinks(l)) : l \in ListsUpTo(CellLinks, MaxCellLinks)}
    \cup {IssueWithout}

InitFormat ==
  /\ dPc = "call"
  /\ dIssue \in FormatIssues
  /\ dColumn \in ConfluenceColumns
  /\ dFormatted = [fields |-> {}, cell |-> Null, links |-> <<>>]

\* no column is being formatted
IdleFormat ==
  /\ dPc = "idle"
  /\ dIssue = IssueWithout
  /\ dColumn = Column("", "")
  /\ dFormatted = [fields |-> {}, cell |-> Null, links |-> <<>>]

\* the branch of the CG column; column.key names the fields it sets
FormatCgColumn ==
  /\ dPc = "call"
  /\ IsCgColumn(dColumn)
  /\ dFormatted' = FormatReadiness(dColumn, ColumnLinks(dColumn, dIssue))
  /\ dPc' = "returned"
  /\ UNCHANGED <<dIssue, dColumn>>
  /\ UNCHANGED exceptFormat

\* the branch of the PG column
FormatPgColumn ==
  /\ dPc = "call"
  /\ ~IsCgColumn(dColumn) /\ IsPgColumn(dColumn)
  /\ dFormatted' = FormatReadiness(dColumn, ColumnLinks(dColumn, dIssue))
  /\ dPc' = "returned"
  /\ UNCHANGED <<dIssue, dColumn>>
  /\ UNCHANGED exceptFormat

NextFormat == FormatCgColumn \/ FormatPgColumn

-----------------------------------------------------------------------------
\* getPort, called once when the server starts

PortEnvs == {"", "8080", "80", "7842", " 9090", "12abc", "abc", "0x50"}

PortConfigs ==
  { ConfigMissing, ConfigFile(FALSE, 0), ConfigFile(TRUE, 0),
    ConfigFile(TRUE, 9000), ConfigFile(TRUE, 3000) }

InitPort ==
  /\ gPc = "call"
  /\ gFile \in {"jira-client-clean.js", "server.js"}
  /\ gEnv \in PortEnvs
  /\ gConfig \in PortConfigs
  /\ gPort = NaN

\* no server is starting
IdlePort ==
  /\ gPc = "idle"
  /\ gFile = ""
  /\ gEnv = ""
  /\ gConfig = ConfigMissing
  /\ gPort = NaN

\* const port = getPort() of jira-client-clean.js
GetPort ==
  /\ gPc = "call"
  /\ gFile = "jira-client-clean.js"
  /\ gPort' = getPort(gEnv, gConfig)
  /\ gPc' = "returned"
  /\ UNCHANGED <<gFile, gEnv, gConfig>>
  /\ UNCHANGED exceptPort

\* const port = getPort() of server.js
ServerGetPort ==
  /\ gPc = "call"
  /\ gFile = "server.js"
  /\ gPort' = serverGetPort(gEnv, gConfig)
  /\ gPc' = "returned"
  /\ UNCHANGED <<gFile, gEnv, gConfig>>
  /\ UNCHANGED exceptPort

NextPort == GetPort \/ ServerGetPort

-----------------------------------------------------------------------------
\* The Jira search: new JiraClient(), then GET /api/fetch-all-data up to the
\* call of fetchRemoteLinksForIssues, or refreshColumns up to the end of
\* makeJiraRequest

\* jiraConfig.apiToken
ApiTokens == {"", "config-pat", "second-pat"}

\* the x-jira-token header of the request, the userToken of refreshColumns
UserTokens == {"", "user-token"}

\* the configured user name: without domain, like the default one, or
\* with it
Usernames == {"jira.user", "jira.user@nutanix.com"}

SearchStatuses == {200, 302, 401, 403, 404, 500, 503}
SearchBodies == {"issues", "noIssues", "object", "errorMessages", "disabled", "html", "text"}

SearchOutcomes ==
  { SearchResponse(status, body) : status \in SearchStatuses, body \in SearchBodies }
  \cup { NoSearchResponse("timeout of 30000ms exceeded"),
         NoSearchResponse("connect ECONNREFUSED 10.0.0.1:443") }

NoSearch == [state |-> "none", message |-> ""]

InitSearch ==
  /\ ePc = "construct"
  /\ eEntry \in {"fetch-all-data", "refreshColumns"}
  /\ eHeader \in UserTokens
  /\ ePat \in ApiTokens
  /\ eUsername \in Usernames
  /\ eMethods = <<>>
  /\ eErrors = <<>>
  /\ eCalls = <<>>
  /\ eFormat = 1
  /\ eResponse = NoSearchResponse("")
  /\ eSearch = NoSearch
  /\ eAnswer = NoAnswer

\* no client is at work
IdleSearch ==
  /\ ePc = "idle"
  /\ eEntry = ""
  /\ eHeader = ""
  /\ ePat = ""
  /\ eUsername = ""
  /\ eMethods = <<>>
  /\ eErrors = <<>>
  /\ eCalls = <<>>
  /\ eFormat = 1
  /\ eResponse = NoSearchResponse("")
  /\ eSearch = NoSearch
  /\ eAnswer = NoAnswer

\* a constructor that accepts a configuration without API token
ConstructUnchecked ==
  /\ ePc = "construct"
  /\ ePc' = IF eEntry = "fetch-all-data" THEN "handler" ELSE "call"
  /\ UNCHANGED <<eEntry, eHeader, ePat, eUsername, eMethods, eErrors, eCalls, eFormat, eResponse, eSearch, eAnswer>>
  /\ UNCHANGED exceptSearch

\* new JiraClient(): validateConfiguration throws when the API token is
\* missing, and the server exits before it listens
Construct ==
  /\ ePc = "construct"
  /\ ePc' = IF ePat = "" THEN "crashed"
            ELSE IF eEntry = "fetch-all-data" THEN "handler" ELSE "call"
  /\ UNCHANGED <<eEntry, eHeader, ePat, eUsername, eMethods, eErrors, eCalls, eFormat, eResponse, eSearch, eAnswer>>
  /\ UNCHANGED exceptSearch

\* makeJiraRequest(jql, fields, token) up to the request of its first
\* method
EnterSearch(token) ==
  /\ eMethods' = authMethods(TokenToUse(token, ePat))
  /\ eCalls' = Append(eCalls, eMethods'[1])
  /\ eFormat' = 1
  /\ ePc' = "search"
  /\ UNCHANGED <<eEntry, eHeader, ePat, eUsername, eErrors, eResponse, eSearch, eAnswer>>

\* a handler that goes on with the configured token
HandlerWithoutGuard ==
  /\ ePc = "handler"
  /\ EnterSearch(TokenToUse(eHeader, ePat))
  /\ UNCHANGED exceptSearch

\* app.get('/api/fetch-all-data'): the guard on the x-jira-token header,
\* then fetchAllData(jql, userToken) up to the first search request
Handler ==
  /\ ePc = "handler"
  /\ IF eHeader = ""
     THEN /\ eAnswer' = Answer(401, FALSE, "No authentication token provided. Please authenticate first using the Authenticate button.")
          /\ ePc' = "done"
          /\ UNCHANGED <<eEntry, eHeader, ePat, eUsername, eMethods, eErrors, eCalls, eFormat, eResponse, eSearch>>
     ELSE EnterSearch(TokenToUse(eHeader, ePat))
  /\ UNCHANGED exceptSearch

\* refreshColumns(jql, userToken) up to the first search request
RefreshColumns ==
  /\ ePc = "call"
  /\ EnterSearch(TokenToUse(eHeader, ePat))
  /\ UNCHANGED exceptSearch

\* what follows a response returned by makeJiraRequest: refreshColumns has
\* it; the handler reads data.issues.length and calls
\* fetchRemoteLinksForIssues, which sends the lookups of the first batch
AfterReturn(outcome) ==
  /\ eSearch' = [state |-> "returned", message |-> ""]
  /\ eErrors' = eErrors
  /\ eFormat' = eFormat
  /\ IF eEntry = "refreshColumns"
     THEN /\ ePc' = "returned"
          /\ UNCHANGED <<eCalls, eAnswer>>
     ELSE IF outcome.body \in {"issues", "noIssues"}
     THEN /\ ePc' = "fetch"
          /\ eCalls' = IF outcome.body = "issues" THEN Append(eCalls, "remotelink") ELSE eCalls
          /\ eAnswer' = eAnswer
     ELSE /\ ePc' = "done"
          /\ eAnswer' = HandlerCatch(Error("Cannot read properties of undefined (reading 'length')"))
          /\ eCalls' = eCalls

\* what follows a method that threw: the next method is tried; after the
\* last one makeJiraRequest throws, fetchAllData wraps the error and the
\* handler answers
AfterThrow(error) ==
  /\ eErrors' = Append(eErrors, error.message)
  /\ IF Len(eErrors') < Len(eMethods)
     THEN /\ eCalls' = Append(eCalls, eMethods[Len(eErrors') + 1])
          /\ eFormat' = 1
          /\ UNCHANGED <<ePc, eSearch, eAnswer>>
     ELSE /\ eSearch' = [state |-> "thrown", message |-> AllMethodsFailed(eErrors').message]
          /\ eCalls' = eCalls
          /\ eFormat' = eFormat
          /\ IF eEntry = "refreshColumns"
             THEN /\ ePc' = "thrown"
                  /\ eAnswer' = eAnswer
             ELSE /\ ePc' = "done"
                  /\ eAnswer' = HandlerCatch(FetchAllDataCatch(AllMethodsFailed(eErrors')))

\* the method goes on to the request of its next format
AfterGoOn ==
  /\ eCalls' = Append(eCalls, eMethods[Len(eErrors) + 1])
  /\ eFormat' = eFormat + 1
  /\ UNCHANGED <<ePc, eErrors, eSearch, eAnswer>>

\* the request in flight of the current method settles
MethodSettles(outcome) ==
  /\ ePc = "search"
  /\ eResponse' = outcome
  /\ IF TryMethod(eMethods[Len(eErrors) + 1], eUsername, eFormat, outcome).again
     THEN AfterGoOn
     ELSE IF TryMethod(eMethods[Len(eErrors) + 1], eUsername, eFormat, outcome).ok
     THEN AfterReturn(outcome)
     ELSE AfterThrow(TryMethod(eMethods[Len(eErrors) + 1], eUsername, eFormat, outcome).error)
  /\ UNCHANGED <<eEntry, eHeader, ePat, eUsername, eMethods>>
  /\ UNCHANGED exceptSearch

NextSearch ==
  \/ Construct
  \/ Handler
  \/ RefreshColumns
  \/ \E outcome \in SearchOutcomes : MethodSettles(outcome)

-----------------------------------------------------------------------------
\* Specifications

\* one report request
Init == InitRequest /\ IdleTitle /\ IdleResolver /\ IdleClassify /\ IdleFind /\ IdleFormat /\ IdlePort /\ IdleSearch

Next == NextRequest

Spec == Init /\ [][Next]_vars

\* The report request when every lookup settles (each request carries a
\* timeout of 10 s), the timer between batches fires, and the loop of
\* fetchRemoteLinksForIssues is run on when it can go on.
Fairness ==
  /\ WF_vars(StartBatch)
  /\ WF_vars(\E k \in 1..NumIssues : LookupSettles(k))
  /\ WF_vars(BatchDone)
  /\ WF_vars(DelayElapsed)

LiveSpec == Init /\ [][Next]_vars /\ Fairness

\* one call of extractTitleFromUrl
InitTitleCall == IdleRequest /\ InitTitle /\ IdleResolver /\ IdleClassify /\ IdleFind /\ IdleFormat /\ IdlePort /\ IdleSearch

SpecTitle == InitTitleCall /\ [][NextTitle]_vars

\* one call of getPageTitle
InitResolverCall == IdleRequest /\ IdleTitle /\ InitResolver /\ IdleClassify /\ IdleFind /\ IdleFormat /\ IdlePort /\ IdleSearch

SpecResolver == InitResolverCall /\ [][NextResolver]_vars

\* one link classified
InitClassifyCall == IdleRequest /\ IdleTitle /\ IdleResolver /\ InitClassify /\ IdleFind /\ IdleFormat /\ IdlePort /\ IdleSearch

SpecClassify == InitClassifyCall /\ [][NextClassify]_vars

\* one call of findReadinessLink
InitFindCall == IdleRequest /\ IdleTitle /\ IdleResolver /\ IdleClassify /\ InitFind /\ IdleFormat /\ IdlePort /\ IdleSearch

SpecFind == InitFindCall /\ [][NextFind]_vars

\* one start of the server
InitPortCall == IdleRequest /\ IdleTitle /\ IdleResolver /\ IdleClassify /\ IdleFind /\ IdleFormat /\ InitPort /\ IdleSearch

SpecPort == InitPortCall /\ [][NextPort]_vars

\* one formatting of a CG or PG column
InitFormatCall == IdleRequest /\ IdleTitle /\ IdleResolver /\ IdleClassify /\ IdleFind /\ InitFormat /\ IdlePort /\ IdleSearch

SpecFormat == InitFormatCall /\ [][NextFormat]_vars

\* one client: its construction, then one request to /api/fetch-all-data
\* or one call of refreshColumns
InitSearchCall == IdleRequest /\ IdleTitle /\ IdleResolver /\ IdleClassify /\ IdleFind /\ IdleFormat /\ IdlePort /\ InitSearch

SpecSearch == InitSearchCall /\ [][NextSearch]_vars

-----------------------------------------------------------------------------
\* Properties of the report request

Issues == 1..NumIssues

\* fetchRemoteLinksForIssues has returned its two maps
FetchReturned == pc \in {"enrich", "respond", "done"} /\ ~fetch.rejected

\* the enrichment step has run
Enriched == pc \in {"respond", "done"} /\ DOMAIN readiness = Issues

\* the wiki-origin links of a response body, in the order of the body
WikiLinksOf(data) ==
  FilterFrom(data, {j \in 1..Len(data) : IsConfluenceUrl(data[j].url)}, 1)

\* the title of every wiki-origin link of the body can be derived
Derivable(data) == \A j \in 1..Len(data) : ~MapThrowsAt(data, j)

LookupFailed(k) == answer[k].kind \in {"status", "timeout of 10000ms exceeded", "connect ECONNREFUSED"}

EmptyResult == [cg |-> NullList, pg |-> NullList]

Urls(links) == [n \in 1..Len(links) |-> links[n].url]

CgIndices(links) == {n \in 1..Len(links) : IsCgLink(links[n])}
PgIndices(links) == {n \in 1..Len(links) : IsPgLink(links[n])}

\* C1: when the lookup of an issue x fails, fetchRemoteLinksForIssues still
\* returns without raising, x has no entry in either map, and every other
\* issue y, of the same batch or a later one, has exactly the links its own
\* lookup returned: the "mentioned in" links and the wiki-origin links of its
\* own response, in order.
C1_BatchIsolation ==
  /\ ~fetch.rejected
  /\ ~(pc = "done" /\ httpStatus = 500)
  /\ FetchReturned =>
       \A x \in Issues : LookupFailed(x) =>
         /\ x \notin DOMAIN fetch.remoteLinksMap
         /\ x \notin DOMAIN fetch.allConfluenceLinksMap
         /\ \A y \in Issues \ {x} :
              (answer[y].kind = "array" /\ Derivable(answer[y].data)) =>
                /\ Lookup(fetch.allConfluenceLinksMap, y)
                     = ConfluenceLinksFrom(answer[y].data, 1)
                /\ Lookup(fetch.remoteLinksMap, y)
                     = FilterFrom(answer[y].data,
                         {j \in 1..Len(answer[y].data) : IsMentionedIn(answer[y].data[j])}, 1)

\* a failed lookup beside a populated issue of its batch and one of the next batch
C1_Witness ==
  /\ FetchReturned
  /\ \E x, y \in 1..batchSize, z \in (batchSize + 1)..NumIssues :
       /\ x # y
       /\ answer[x].kind = "timeout of 10000ms exceeded"
       /\ answer[y].kind = "array" /\ y \in DOMAIN fetch.allConfluenceLinksMap
       /\ answer[z].kind = "array" /\ z \in DOMAIN fetch.allConfluenceLinksMap

\* C2: whatever lookups failed, the request is answered and every issue
\* carries _readinessLinks whose cg and pg are each null or a non-empty
\* list of {url, title}.
WellFormedColumn(v) ==
  \/ v = NullList
  \/ /\ ~v.isNull
     /\ Len(v.items) > 0
     /\ \A n \in 1..Len(v.items) : DOMAIN v.items[n] = {"url", "title"}

C2_EveryItemHasResult ==
  /\ pc = "done" => httpStatus = 200 /\ DOMAIN readiness = Issues
  /\ Enriched =>
       \A k \in Issues :
         WellFormedColumn(readiness[k].cg) /\ WellFormedColumn(readiness[k].pg)

\* answered with failed lookups, a populated issue and an empty one
C2_Witness ==
  /\ pc = "done" /\ httpStatus = 200
  /\ \E x, y, z \in Issues :
       /\ LookupFailed(x) /\ readiness[x] = EmptyResult
       /\ ~LookupFailed(y) /\ ~readiness[y].cg.isNull
       /\ ~LookupFailed(z) /\ readiness[z] = EmptyResult

\* C3: a 404 answer to the lookup of an issue gives the issue the result of
\* an empty link array (cg and pg null), raises nothing, and leaves the
\* result of every other issue what its own response gives.
C3_NotFoundIsNoLinks ==
  /\ (\E k \in Issues : answer[k] = RespStatus(404)) =>
       ~fetch.rejected /\ (pc = "done" => httpStatus = 200)
  /\ Enriched =>
       \A k \in Issues :
         /\ answer[k] = RespStatus(404) =>
              /\ readiness[k] = EmptyResult
              /\ k \notin DOMAIN fetch.allConfluenceLinksMap
              /\ \A y \in Issues \ {k} :
                   (answer[y].kind = "array" /\ Derivable(answer[y].data)) =>
                     readiness[y] = ReadinessLinks(ConfluenceLinksFrom(answer[y].data, 1))
         /\ answer[k] = RespArray(<<>>) => readiness[k] = EmptyResult

\* an issue answered 404 beside one answered with an empty array, both enriched
C3_Witness ==
  /\ pc = "done"
  /\ \E k, e, y \in Issues :
       /\ answer[k] = RespStatus(404) /\ readiness[k] = EmptyResult
       /\ answer[e] = RespArray(<<>>) /\ readiness[e] = EmptyResult
       /\ ~readiness[y].pg.isNull

\* C4: for an issue with wiki-origin links none of which is classified, cg
\* and pg both list all its wiki-origin links in their order, the N-th with
\* the link's title when it is non-empty and not "Page", else the title
\* extracted from its URL, else "Link N".
BroadcastTitle(raw, n) ==
  LET extracted == extractTitleFromUrl(raw.url)
  IN IF raw.title # "" /\ raw.title # "Page" THEN raw.title
     ELSE IF extracted.t = "str" /\ extracted.v # "" THEN extracted.v
     ELSE "Link " \o ToString(n)

BroadcastOf(data) ==
  LET raw == WikiLinksOf(data)
  IN List([n \in 1..Len(raw) |-> [url |-> raw[n].url, title |-> BroadcastTitle(raw[n], n)]])

C4_BroadcastFallback ==
  Enriched =>
    \A k \in Issues :
      LET links == Lookup(fetch.allConfluenceLinksMap, k)
      IN /\ (Len(links) > 0 /\ CgIndices(links) = {} /\ PgIndices(links) = {}) =>
              /\ readiness[k].cg = BroadcastOf(answer[k].data)
              /\ readiness[k].pg = BroadcastOf(answer[k].data)
         /\ answer[k] = RespArray(<<LinkJira, LinkNoTitle, LinkPage, LinkNotes>>) =>
              readiness[k].cg.items =
                << [url |-> LinkNoTitle.url, title |-> "Link 1"],
                   [url |-> LinkPage.url, title |-> "Link 2"],
                   [url |-> LinkNotes.url, title |-> "Meeting Notes"] >>

\* an issue with three unclassified wiki links, two of them without a title
C4_Witness ==
  /\ Enriched
  /\ \E k \in Issues :
       /\ answer[k] = RespArray(<<LinkJira, LinkNoTitle, LinkPage, LinkNotes>>)
       /\ Len(readiness[k].cg.items) = 3
       /\ readiness[k].pg = readiness[k].cg

\* C5: when a link of an issue is classified into a category, a category
\* without classified link is null and a category's list holds classified
\* links of that category only.
C5_NoBroadcastOnPartialMatch ==
  Enriched =>
    \A k \in Issues :
      LET links == Lookup(fetch.allConfluenceLinksMap, k)
          cg == CgIndices(links)
          pg == PgIndices(links)
      IN (cg \cup pg # {}) =>
           /\ cg = {} => readiness[k].cg = NullList
           /\ pg = {} => readiness[k].pg = NullList
           /\ \A n \in 1..Len(readiness[k].cg.items) :
                \E m \in cg : links[m].url = readiness[k].cg.items[n].url
           /\ \A n \in 1..Len(readiness[k].pg.items) :
                \E m \in pg : links[m].url = readiness[k].pg.items[n].url

\* Scenario A: a CG link and an unclassified link give cg one link and pg null
C5_Witness ==
  /\ Enriched
  /\ \E k \in Issues :
       /\ answer[k] = RespArray(<<LinkCg, LinkRandom>>)
       /\ Urls(readiness[k].cg.items) = <<LinkCg.url>>
       /\ readiness[k].pg = NullList

\* C6: outside the broadcast, the cg list is the links classified CG and
\* the pg list the links classified PG, each in the order of the links, a
\* link classified into both being in both.
C6_ExactMembership ==
  Enriched =>
    \A k \in Issues :
      LET links == Lookup(fetch.allConfluenceLinksMap, k)
          cg == CgIndices(links)
          pg == PgIndices(links)
      IN (cg \cup pg # {} \/ Len(links) = 0) =>
           /\ Urls(readiness[k].cg.items) = Urls(FilterFrom(links, cg, 1))
           /\ Urls(readiness[k].pg.items) = Urls(FilterFrom(links, pg, 1))

\* an issue with a PG link, a link of both categories and a CG link
C6_Witness ==
  /\ Enriched
  /\ \E k \in Issues :
       /\ answer[k] = RespArray(<<LinkPg, LinkJira, LinkBoth, LinkCgTitled>>)
       /\ Urls(readiness[k].cg.items) = <<LinkBoth.url, LinkCgTitled.url>>
       /\ Urls(readiness[k].pg.items) = <<LinkPg.url, LinkBoth.url>>

\* C7: when the title of one wiki-origin link of an issue cannot be
\* derived, the issue is not aborted: every wiki-origin link of its response
\* is retained in allConfluenceLinksMap, the failing one with an empty title.
C7_LinkFaultIsolation ==
  FetchReturned =>
    \A k \in Issues :
      answer[k].kind = "array" =>
        LET data == answer[k].data
            links == Lookup(fetch.allConfluenceLinksMap, k)
        IN /\ Urls(links) = Urls(WikiLinksOf(data))
           /\ \A n \in 1..Len(links) :
                extractTitleFromUrl(links[n].url).t = "throw" =>
                  links[n].title \in {"", WikiLinksOf(data)[n].title}

\* the URLs of the raw remote links Jira answered for issue k
RawUrls(k) ==
  IF answer[k].kind = "array"
  THEN {answer[k].data[j].url : j \in 1..Len(answer[k].data)}
  ELSE {}

\* every link of the list is a wiki-origin remote link of issue k
WikiLinksOfIssue(links, k) ==
  \A n \in 1..Len(links) :
    IsConfluenceUrl(links[n].url) /\ links[n].url \in RawUrls(k)

\* C21: the links retained for an issue are remote links of that issue
\* whose URL is of wiki origin, and so is every entry of the issue's cg and
\* pg lists, classified or broadcast; a link of another origin is in
\* neither list.
C21_WikiOriginOnly ==
  /\ \A k \in DOMAIN fetch.allConfluenceLinksMap :
       WikiLinksOfIssue(fetch.allConfluenceLinksMap[k], k)
  /\ \A k \in DOMAIN readiness :
       /\ WikiLinksOfIssue(readiness[k].cg.items, k)
       /\ WikiLinksOfIssue(readiness[k].pg.items, k)

\* a Jira link that reads like a CG link is left out of a classified cg
\* list and of a broadcast
C21_Witness ==
  /\ Enriched
  /\ \E k, b \in Issues :
       /\ answer[k] = RespArray(<<LinkPg, LinkJira, LinkBoth, LinkCgTitled>>)
       /\ Len(readiness[k].cg.items) = 2
       /\ answer[b] = RespArray(<<LinkJira, LinkNoTitle, LinkPage, LinkNotes>>)
       /\ Len(readiness[b].pg.items) = 3

\* the issues whose lookup has settled: those of the batches before the
\* current one, and those of the current batch no longer in flight
Settled ==
  (1..(batchI - 1)) \cup
  (IF pc = "loop" THEN {}
   ELSE {k \in Issues : batchI <= k /\ k < batchI + batchSize} \ pending)

\* fetchRemoteLinksForIssues has returned or thrown
FetchOver == pc \in {"enrich", "respond", "done"}

\* C22: when every lookup settles, fetchRemoteLinksForIssues eventually
\* returns, and when it returns the lookup of every issue has settled.
C22_FetchTerminates ==
  /\ <>FetchOver
  /\ [](FetchOver => (pending = {} /\ Settled = Issues))

\* the fetch has returned after two batches, with lookups that failed
C22_Witness ==
  /\ pc = "enrich"
  /\ batchI = batchSize + 1
  /\ Settled = Issues
  /\ fetch.errorCount > 1

\* what the response of issue k alone gives: its "mentioned in" links and
\* its wiki-origin links, empty when the lookup failed
OwnMentionedIn(k) ==
  IF answer[k].kind = "array"
  THEN ProcessedOf[OutcomeIndex(answer[k])].mentionedInLinks
  ELSE <<>>

OwnConfluence(k) ==
  IF answer[k].kind = "array"
  THEN ProcessedOf[OutcomeIndex(answer[k])].confluenceLinks
  ELSE <<>>

OwnEntries ==
  [k \in Issues |-> [mentionedIn |-> OwnMentionedIn(k), allConfluence |-> OwnConfluence(k)]]

\* C26: in whatever order the lookups of a batch complete, the entries of
\* an issue whose lookup has settled are what its own response gives, and
\* an issue whose lookup has not settled has no entry; so the maps
\* fetchRemoteLinksForIssues returns are the same for every order.
C26_OrderIndependence ==
  \A k \in Issues :
    /\ Lookup(fetch.remoteLinksMap, k)
         = IF k \in Settled THEN OwnEntries[k].mentionedIn ELSE <<>>
    /\ Lookup(fetch.allConfluenceLinksMap, k)
         = IF k \in Settled THEN OwnEntries[k].allConfluence ELSE <<>>
    /\ DOMAIN fetch.remoteLinksMap \cup DOMAIN fetch.allConfluenceLinksMap \subseteq Issues

\* a lookup has completed before one of an earlier issue of its batch, and
\* both maps hold its entry
C26_Witness ==
  /\ pc = "await"
  /\ \E x, y \in Issues :
       /\ x < y
       /\ x \in pending
       /\ answer[x].kind = "array" /\ Len(OwnConfluence(x)) > 0
       /\ y \in Settled
       /\ y \in DOMAIN fetch.remoteLinksMap \cap DOMAIN fetch.allConfluenceLinksMap

\* the lookups in flight belong to one batch of at most 10 consecutive issues
InFlightInOneBatch ==
  /\ Cardinality(pending) <= 10
  /\ (batchI - 1) % 10 = 0
  /\ pending \subseteq batchI..(batchI + 9)

\* lookups start only when none is in flight, and then those of the whole
\* next batch start together
StartsAfterAllSettled ==
  (pending' \ pending # {}) =>
    /\ pending = {}
    /\ pending' = {k \in Issues : batchI <= k /\ k <= batchI + 9}

\* C19: the issues are looked up in consecutive batches of at most 10; the
\* lookups of a batch are in flight together, and no lookup of the next
\* batch starts before every lookup of the batch has settled, so at most 10
\* lookups are in flight at any time.
C19_BoundedConcurrency == []InFlightInOneBatch /\ [][StartsAfterAllSettled]_vars

\* the second batch is in flight after the ten lookups of the first
\* settled, some of them with an error
C19_Witness ==
  /\ pc = "await"
  /\ batchI = 11
  /\ pending = 11..NumIssues
  /\ fetch.errorCount > 0

-----------------------------------------------------------------------------
\* Properties of getPageTitle

\* C8: for every URL string and every outcome of the two requests, with or
\* without a token, getPageTitle returns a title or null and never throws.
C8_ResolverNeverThrows ==
  /\ rPc # "thrown"
  /\ rResult.t \in {"str", "null"}
  /\ rPc = "returned" => (rResult = Null \/ (rResult.t = "str" /\ rResult.v # ""))

\* both requests sent and both without a response, and the call returned null
C8_Witness ==
  /\ rPc = "returned"
  /\ Len(rRequests) = 2
  /\ ~rResponse.responded
  /\ rResult = Null

\* the request sent for a page id under a scheme
PageRequest(scheme, pageId) == <<scheme, pageId>>

\* the page ids of the URLs of ResolverUrls that start with http and hold
\* one; "" for the others
PageIdIn(url) ==
  CASE url = "https://confluence.eng.nutanix.com:8443/display/ED/subpages/77" -> "77"
    [] url = "https://confluence.eng.nutanix.com:8443/spaces/ED/pages/468276167/NDB-2.10+CG+Readiness" -> "468276167"
    [] url = "https://nutanix.atlassian.net/wiki/pages/viewpage.action?pageId=12" -> "12"
    [] url = "https://confluence.eng.nutanix.com:8443/spaces/ED/pages/47/Budget+100%" -> "47"
    [] OTHER -> ""

\* what is sent at each moment of a call for a URL with a page id
SchemeOrder ==
  /\ Len(rRequests) <= 2
  /\ rPc = "call" => rRequests = <<>>
  /\ (rPc = "basic" /\ PageIdIn(rUrl) # "") =>
       rRequests = <<PageRequest("Basic", PageIdIn(rUrl))>>
  /\ (rPc = "bearer" /\ PageIdIn(rUrl) # "") =>
       rRequests = <<PageRequest("Basic", PageIdIn(rUrl)),
                     PageRequest("Bearer", PageIdIn(rUrl))>>

\* the step in which the Basic attempt settles
AfterBasic ==
  rPc = "basic" =>
    IF rResponse'.responded /\ rResponse'.status = 200
    THEN /\ rPc' = "returned"
         /\ rRequests' = rRequests
         /\ rResult' = IF rResponse'.title # "" THEN Str(rResponse'.title) ELSE Null
    ELSE /\ rPc' = "bearer"
         /\ Len(rRequests') = 2

\* C14: the Basic request is sent first; the Bearer request is sent, to the
\* same endpoint, exactly when the Basic attempt gave no status 200; no call
\* sends more than two requests, and a Basic attempt with status 200
\* decides the result.
C14_SchemeOrder == []SchemeOrder /\ [][AfterBasic]_vars

\* Basic answered 500, Bearer answered 200 with a title
C14_Witness ==
  /\ rPc = "returned"
  /\ rRequests = <<PageRequest("Basic", "468276167"), PageRequest("Bearer", "468276167")>>
  /\ rResponse = PageResponse(200, "NDB 2.10 CG Readiness")
  /\ rResult = Str("NDB 2.10 CG Readiness")

\* C15 as stated: a URL in which neither pageId=<digits> nor
\* /pages/<digits> occurs gets no request.
C15_NoRequestWithoutEitherForm ==
  rUrl \in { "", "not a url",
             "https://confluence.eng.nutanix.com:8443/display/ED/Home",
             "https://confluence.eng.nutanix.com:8443/display/ED/subpages/77" }
    => rRequests = <<>>

\* C15: a URL in which none of pageId=<digits>, /pages/<digits> and
\* pages/<digits> occurs, so that no page id can be extracted, gets no
\* request at all.
C15_NoRequestWithoutPageId ==
  rUrl \in { "", "not a url",
             "https://confluence.eng.nutanix.com:8443/display/ED/Home" }
    => rRequests = <<>>

\* a call with a token for a URL without page id has returned
C15_Witness ==
  /\ rPc = "returned"
  /\ rUrl = "https://confluence.eng.nutanix.com:8443/display/ED/Home"
  /\ rUserToken
  /\ rRequests = <<>>
  /\ rResult = Null

\* C18: a title that getPageTitle returns comes from a response with
\* status 200, under either scheme.
C18_TitleOnlyFromStatus200 ==
  (rPc = "returned" /\ rResult.t = "str") =>
    (rResponse.responded /\ rResponse.status = 200)

-----------------------------------------------------------------------------
\* Properties of findReadinessLink

FindPositions == 1..Len(fLinks)

\* getPageTitle has returned for link n
TitleKnown(n) == fRes[n].phase \notin {"todo", "title", "titleBearer"}

\* C16: the title resolved for a link is the title of the network answer
\* when an attempt succeeded, and the title extracted from the URL when
\* both attempts failed or were skipped; it is null only when the URL
\* yields no title either.
C16_TitlePrecedence ==
  \A n \in FindPositions :
    TitleKnown(n) =>
      /\ (fRes[n].titleStatus = 200 /\ fRes[n].pageTitle.t = "str") =>
           fRes[n].pageTitle.v \in PageTitles
      /\ fRes[n].titleStatus = 0 => fRes[n].pageTitle = extractTitleFromUrl(fLinks[n].url)

\* C17: the labels of a link are non-empty only if a page-metadata request
\* for the link was answered with status 200.
C17_LabelsOnlyFromStatus200 ==
  \A n \in FindPositions :
    fRes[n].labels # {} => (fRes[n].labelStatus = 200 \/ fRes[n].titleStatus = 200)

\* the links whose title or label requests are under way
ResolutionsInProgress ==
  {n \in FindPositions : fRes[n].phase \in {"title", "titleBearer", "labelBasic", "labelBearer"}}

\* C20: at most one link of the list is being resolved at any time, and a
\* link is taken up only when all links before it are finished with.
C20_SequentialResolution ==
  /\ Cardinality(ResolutionsInProgress) <= 1
  /\ \A n \in FindPositions :
       fRes[n].phase # "todo" => \A m \in 1..(n - 1) : fRes[m].phase = "done"

\* the labels of the second link are being fetched, the first link is
\* finished with
C20_Witness ==
  /\ Len(fLinks) >= 2
  /\ fRes[1].phase = "done"
  /\ fRes[1].pageTitle.t = "str"
  /\ fRes[2].phase = "labelBearer"

\* the resolved title of link n holds the search term of the category
ResolvedMatch(n) ==
  /\ fRes[n].pageTitle.t = "str"
  /\ includes(toLowerCase(fRes[n].pageTitle.v),
              IF fType = "CG Readiness" THEN "cg readiness" ELSE "pg readiness")

\* C27: findReadinessLink returns the URL of the first link, in the order
\* of the list, whose resolved title holds the search term, and no request
\* is made for a later link; when no link matches, or the list is empty, it
\* returns 'No link'.
C27_FirstMatchWins ==
  /\ \A n \in FindPositions :
       ResolvedMatch(n) => \A m \in FindPositions : m > n => fRes[m] = Untouched
  /\ fPc = "returned" =>
       IF \E n \in FindPositions : ResolvedMatch(n)
       THEN LET first == MinOf({n \in FindPositions : ResolvedMatch(n)})
            IN /\ fResult = Str(fLinks[first].url)
               /\ \A m \in 1..(first - 1) : fRes[m].phase = "done"
       ELSE fResult = Str("No link")

\* the second of three links matched after the first was given up, and the
\* third was never looked at
C27_Witness ==
  /\ fPc = "returned"
  /\ fLinks = <<LinkNoObject, LinkCg, LinkPg>>
  /\ fResult = Str(LinkCg.url)
  /\ fRes[1].phase = "done"
  /\ fRes[3] = Untouched

-----------------------------------------------------------------------------
\* Properties of formatIssues

\* the readiness list the column shows: cg for a column on the CG field,
\* pg for one on the PG field, null for an issue without _readinessLinks
ShownList ==
  IF ~dIssue.has THEN NullList
  ELSE IF dColumn.jiraField = "customfield_10000" THEN dIssue.links.cg
  ELSE dIssue.links.pg

RECURSIVE CommaSeparated(_, _)
\* the URLs of the first n links, separated by a comma and a space
CommaSeparated(links, n) ==
  IF n = 0 THEN ""
  ELSE IF n = 1 THEN links[1].url
  ELSE CommaSeparated(links, n - 1) \o ", " \o links[n].url

\* C23: for a non-empty list of {url, title} objects the cell of a CG or PG
\* column is the URLs separated by ", " and <key>_links is the list itself;
\* for a null or absent list the cell is "No link" and <key>_links is not
\* set.
C23_ReadinessCell ==
  dPc = "returned" =>
    IF ShownList.isNull
    THEN /\ dFormatted.cell = Str("No link")
         /\ dFormatted.fields = {dColumn.key}
    ELSE /\ dFormatted.cell = Str(CommaSeparated(ShownList.items, Len(ShownList.items)))
         /\ dFormatted.fields = {dColumn.key, dColumn.key \o "_links"}
         /\ dFormatted.links = ShownList.items

\* a user column on the PG field shows two links
C23_Witness ==
  /\ dPc = "returned"
  /\ dColumn = Column("pgCompletion", "customfield_10001")
  /\ Len(dFormatted.links) = 2
  /\ dFormatted.links[1].url # dFormatted.links[2].url
  /\ "pgCompletion_links" \in dFormatted.fields

-----------------------------------------------------------------------------
\* Properties of getPort

\* C24: the port is PORT when it is set, else server.port of config.json
\* when there is one, else 7842.
C24_PortPriority ==
  gPc = "returned" =>
    /\ gEnv = "8080" => gPort = Num(8080)
    /\ gEnv = "80" => gPort = Num(80)
    /\ gEnv = "7842" => gPort = Num(7842)
    /\ gEnv = "" =>
         IF gConfig.readable /\ gConfig.hasServer /\ gConfig.port # 0
         THEN gPort = Num(gConfig.port)
         ELSE gPort = Num(7842)

-----------------------------------------------------------------------------
\* Properties of the Jira search

\* seq without the entries that repeat the entry before them
RECURSIVE Distinct(_)
Distinct(seq) ==
  IF Len(seq) <= 1 THEN seq
  ELSE IF seq[Len(seq)] = seq[Len(seq) - 1] THEN Distinct(SubSeq(seq, 1, Len(seq) - 1))
  ELSE Append(Distinct(SubSeq(seq, 1, Len(seq) - 1)), seq[Len(seq)])

\* the methods called so far, in the order of their requests
SearchCalls == Distinct(SelectSeq(eCalls, LAMBDA c : c # "remotelink"))

\* the number of methods whose request has been sent
MethodsTried ==
  IF eMethods = <<>> THEN 0
  ELSE IF ePc = "search" \/ eSearch.state = "returned" THEN Len(eErrors) + 1
  ELSE Len(eErrors)

\* C28: makeJiraRequest tries its methods in list order, returns the
\* response of the first method that succeeds without trying a later one,
\* and throws, when every method has failed, one error that carries the
\* message of the last failed method; a constructed client has a token, so
\* the list is the Bearer method alone and the PAT-header and Basic
\* methods are never tried.
C28_AuthChain ==
  /\ SearchCalls = SubSeq(eMethods, 1, MethodsTried)
  /\ eSearch.state = "returned" =>
       /\ eResponse.responded
       /\ eResponse.status = 200
       /\ TryMethod(eMethods[Len(eErrors) + 1], eUsername, eFormat, eResponse) = Returned(eResponse)
  /\ eSearch.state = "thrown" =>
       /\ Len(eErrors) = Len(eMethods)
       /\ eSearch.message =
            "All authentication methods failed. Last error: " \o eErrors[Len(eErrors)]
  /\ ePc \in {"handler", "call", "search", "fetch", "done", "returned", "thrown"} => ePat # ""
  /\ eMethods \in {<<>>, <<BearerMethod>>}
  /\ \A n \in 1..Len(eCalls) : eCalls[n] \notin {PatMethod, BasicMethod}

\* refreshColumns without user token: the configured token is used, the
\* Bearer method fails and makeJiraRequest throws
C28_Witness ==
  /\ eEntry = "refreshColumns"
  /\ eHeader = ""
  /\ eSearch.state = "thrown"
  /\ eCalls = <<BearerMethod>>
  /\ eErrors = <<"Authentication failed. Please check your Bearer token (PAT) is valid and has not expired.">>

\* the upstream causes of a failed search: no response, a refusal, a
\* redirect to the login, a server error, an HTML page
UpstreamFailure ==
  \/ ~eResponse.responded
  \/ eResponse.status # 200
  \/ eResponse.body \in {"html", "text"}

\* C29: when the Jira search behind /api/fetch-all-data fails, whatever the
\* upstream cause, the endpoint answers with status 500 and success false,
\* and no remote-link lookup is started.
C29_SearchFailureIs500 ==
  (/\ eEntry = "fetch-all-data"
   /\ \/ eSearch.state = "thrown"
      \/ ePc \in {"fetch", "done"} /\ eCalls # <<>> /\ UpstreamFailure)
  => /\ ePc = "done"
     /\ eSearch.state = "thrown"
     /\ eAnswer.status = 500
     /\ eAnswer.success = FALSE
     /\ \A n \in 1..Len(eCalls) : eCalls[n] # "remotelink"

\* Jira refused the token with status 401 and the endpoint has answered
C29_Witness ==
  /\ eEntry = "fetch-all-data"
  /\ ePc = "done"
  /\ eResponse.responded
  /\ eResponse.status = 401
  /\ eAnswer.status = 500
  /\ eAnswer.error = "Failed to fetch all Jira data: All authentication methods failed. Last error: Authentication failed. Please check your Bearer token (PAT) is valid and has not expired."

\* C30: a request to /api/fetch-all-data without x-jira-token header is
\* answered with status 401 and success false, and makes no outbound call.
C30_AuthenticationGuard ==
  (eEntry = "fetch-all-data" /\ eHeader = "")
  => /\ eCalls = <<>>
     /\ ePc \in {"construct", "crashed", "handler", "done"}
     /\ ePc = "done" => (eAnswer.status = 401 /\ eAnswer.success = FALSE)

\* the request without header has been answered
C30_Witness ==
  /\ eEntry = "fetch-all-data"
  /\ eHeader = ""
  /\ ePc = "done"
  /\ eAnswer.status = 401
  /\ eCalls = <<>>

-----------------------------------------------------------------------------
\* Properties of extractTitleFromUrl

\* C9: for every URL, extractTitleFromUrl returns a string or null and
\* never throws.
C9_ExtractNeverThrows == tPc # "thrown" /\ tResult.t \in {"str", "null"}

\* the titles of the well-formed segments, by the rule of the claim:
\* percent-decoded, '+' and '-' turned into spaces, trimmed
SegmentTitles ==
  [seg \in {"NDB-2.10+CG+Readiness", "Some-Page-Title", "Some+Page+Title", "a%20b",
            "%2Bx%2d", "x%2Fy", "Q%26A%3F", "+-+", "Page", "100%25"} |->
     CASE seg = "NDB-2.10+CG+Readiness" -> "NDB 2.10 CG Readiness"
       [] seg = "Some-Page-Title" -> "Some Page Title"
       [] seg = "Some+Page+Title" -> "Some Page Title"
       [] seg = "a%20b" -> "a b"
       [] seg = "%2Bx%2d" -> "x"
       [] seg = "x%2Fy" -> "x/y"
       [] seg = "Q%26A%3F" -> "Q&A?"
       [] seg = "+-+" -> ""
       [] seg = "Page" -> "Page"
       [] seg = "100%25" -> "100%"]

\* the URL holds /pages/<digits>/<segment> and the segment ends with the
\* URL, at a '/' or at a '?'
HasPagesSegment(parts) ==
  /\ parts.mid \in {"/pages/468276167/", "/pages/7//pages/8/"}
  /\ parts.seg \in DOMAIN SegmentTitles
  /\ parts.tail \in {"", "?param=value", "/edit?x=1", "/pages/9/Other"}

\* C10: for a URL with /pages/<digits>/<segment>, the extracted title is the
\* segment, cut at the next '/' or '?', percent-decoded, with every '+' and
\* '-' a space, trimmed.
C10_PatternExtraction ==
  /\ (tPc # "call" /\ tPc # "idle" /\ HasPagesSegment(tParts)) =>
       tResult = Str(SegmentTitles[tParts.seg])
  /\ (tPc = "returned" /\ tUrl = "https://confluence.eng.nutanix.com:8443/spaces/ED/pages/468276167/NDB-2.10+CG+Readiness?param=value") =>
       tResult = Str("NDB 2.10 CG Readiness")

\* the URL of the example, with the query string, has been extracted from
C10_Witness ==
  /\ tPc = "returned"
  /\ tUrl = "https://confluence.eng.nutanix.com:8443/spaces/ED/pages/468276167/NDB-2.10+CG+Readiness?param=value"
  /\ tResult = Str("NDB 2.10 CG Readiness")

-----------------------------------------------------------------------------
\* Properties of the classification

\* the titles of ClassTitles that hold "cg readiness" / "pg readiness",
\* whatever the case of their letters
CgReadinessTitles == {"NDB 2.10 CG Readiness", "CG READINESS and PG Readiness"}
PgReadinessTitles ==
  {"ndb 2.10 pg readiness", "CG READINESS and PG Readiness", "PG readiness review"}

\* the URLs of ClassUrls that hold cg+readiness, cg-readiness, cg+checklist
\* or cg-checklist, and those that hold one of the four pg patterns
CgPatternUrls ==
  { WikiBase \o "/pages/1/NDB-2.10+CG+Readiness",
    WikiBase \o "/display/ED/CG-Readiness",
    WikiBase \o "/pages/5/PG+Checklist+and+CG+Checklist",
    WikiBase \o "/pages/7/cg-checklist" }
PgPatternUrls ==
  { WikiBase \o "/pages/2/pg-checklist",
    WikiBase \o "/pages/5/PG+Checklist+and+CG+Checklist",
    WikiBase \o "/pages/6/NDB+PG+Readiness?x=1",
    WikiBase \o "/pages/9/Release-pg-readiness" }

\* the categories the URL patterns alone give
ByUrl(url) ==
  (IF url \in CgPatternUrls THEN {"CG"} ELSE {})
  \cup (IF url \in PgPatternUrls THEN {"PG"} ELSE {})

\* C11: a link whose title holds "cg readiness" in any case is CG, one
\* whose title holds "pg readiness" is PG, each decided on its own, and a
\* link titled "NDB 2.10 CG Readiness" whose URL has no PG pattern is CG
\* and not PG.
C11_ClassifiedByTitle ==
  cPc = "done" =>
    /\ cLink.title \in CgReadinessTitles => "CG" \in cCategories
    /\ cLink.title \in PgReadinessTitles => "PG" \in cCategories
    /\ (cLink.title = "NDB 2.10 CG Readiness" /\ cLink.url \notin PgPatternUrls)
         => cCategories = {"CG"}

C11_Witness ==
  /\ cPc = "done"
  /\ cLink = [title |-> "NDB 2.10 CG Readiness",
              url |-> CloudBase \o "/pages/viewpage.action?pageId=3"]
  /\ cCategories = {"CG"}

\* C12: a link without a title is CG exactly when its URL, in lower case,
\* holds one of the four cg patterns and PG exactly when it holds one of
\* the four pg patterns; with pg-checklist and no cg pattern it is {PG}.
C12_ClassifiedByUrl ==
  (cPc = "done" /\ cLink.title = "") => cCategories = ByUrl(cLink.url)

C12_Witness ==
  /\ cPc = "done"
  /\ cLink = [title |-> "", url |-> WikiBase \o "/pages/2/pg-checklist"]
  /\ cCategories = {"PG"}

\* C13: a link titled exactly "Page" is classified as a link without a
\* title is: the URL patterns decide.
C13_PlaceholderTitle ==
  (cPc = "done" /\ cLink.title = "Page") => cCategories = ByUrl(cLink.url)

C13_Witness ==
  /\ cPc = "done"
  /\ cLink = [title |-> "Page", url |-> WikiBase \o "/display/ED/CG-Readiness"]
  /\ cCategories = {"CG"}


\* C25: a link is classified CG only if its title, in lower case, holds
\* "cg readiness" or its URL, in lower case, holds cg+readiness,
\* cg-readiness, cg+checklist or cg-checklist, and PG only under the same
\* conditions with pg; a link that meets none is in no category.
C25_NoWiderThanBaseline ==
  cPc = "done" =>
    /\ "CG" \in cCategories =>
         \/ includes(toLowerCase(cLink.title), "cg readiness")
         \/ \E pattern \in {"cg+readiness", "cg-readiness", "cg+checklist", "cg-checklist"} :
              includes(toLowerCase(cLink.url), pattern)
    /\ "PG" \in cCategories =>
         \/ includes(toLowerCase(cLink.title), "pg readiness")
         \/ \E pattern \in {"pg+readiness", "pg-readiness", "pg+checklist", "pg-checklist"} :
              includes(toLowerCase(cLink.url), pattern)

====
